---------------------------- MODULE Spec2Model ----------------------------
(***************************************************************************)
(* State-machine model of the firmware:                                     *)
(*   - PowerLimiterClass (src/src/solarcharger/victron/Provider.cpp,       *)
(*     lines 117-276): the base "zero feed" limiter,                       *)
(*   - SurplusPowerClass (src/src/SurplusPower.cpp, src/unnamed/part_003): *)
(*     the surplus regulator,                                              *)
(*   - StatisticsParser (src/unnamed/part_000) with the HM 2-channel table *)
(*     (src/lib/Hoymiles/src/inverters/HM_2CH.cpp): the telemetry decoder, *)
(*   - SolarChargers::Victron::Provider (Provider.cpp, lines 1-115),       *)
(*   - PowerMeters::Provider (src/include/powermeter/Provider.h,           *)
(*     src/unnamed/part_001): the MQTT publication of the meter.           *)
(* Units: time in milliseconds (millis()), power in W, meter payloads in   *)
(* tenths of a W (the float the payload is parsed to, times ten),          *)
(* voltages in mV.                                                         *)
(***************************************************************************)
EXTENDS Integers, Sequences, FiniteSets, TLC

VARIABLES
    now,                        \* millis()
    config,                     \* Configuration.get(), PowerLimiter_* fields
    lastCommandSent,            \* PowerLimiterClass::_lastCommandSent
    lastLoop,                   \* PowerLimiterClass::_lastLoop
    lastPowerMeterUpdate,       \* PowerLimiterClass::_lastPowerMeterUpdate
    lastRequestedPowerLimit,    \* PowerLimiterClass::_lastRequestedPowerLimit
    powerMeter1Power,           \* PowerLimiterClass::_powerMeter1Power
    powerMeter2Power,           \* PowerLimiterClass::_powerMeter2Power
    powerMeter3Power,           \* PowerLimiterClass::_powerMeter3Power
    meterReceipt,               \* history: millis() of each topic's last message
    sent,                       \* the commands the last operation sent
    sp,                         \* the fields of the SurplusPowerClass object
    returned,                   \* what the last SurplusPowerClass call returned
    payloadStatistic,           \* StatisticsParser::_payloadStatistic
    statisticLength,            \* StatisticsParser::_statisticLength
    decoded,                    \* what the last StatisticsParser query returned
    mutex,                      \* Victron Provider::_mutex: its holder
    controllers,                \* Victron Provider::_controllers
    chargeLimit,                \* Victron Provider::_chargeLimit
    chargeCurrent,              \* Victron Provider::_chargeCurrent
    threads,                    \* position and locals of each Provider call
    lastUpdate,                 \* PowerMeters::Provider::_lastUpdate
    lastMqttPublish,            \* PowerMeters::Provider::_lastMqttPublish
    publishes,                  \* history: doMqttPublish calls since the last gotUpdate
    tick                        \* the last operation and the inputs it read

limiterVars == <<config, lastCommandSent, lastLoop, lastPowerMeterUpdate,
                 lastRequestedPowerLimit, powerMeter1Power, powerMeter2Power,
                 powerMeter3Power, meterReceipt, sent>>

surplusVars == <<sp, returned>>

decoderVars == <<payloadStatistic, statisticLength, decoded>>

providerVars == <<mutex, controllers, chargeLimit, chargeCurrent, threads>>

meterVars == <<lastUpdate, lastMqttPublish, publishes>>

vars == <<now, tick, limiterVars, surplusVars, decoderVars, providerVars, meterVars>>

----------------------------------------------------------------------------
(* Bounds of the model *)

\* the instants at which the limiter and its meters act: multiples of ClockStep
\* ms, up to MaxClockSteps of them
ClockStep == 10000
MaxClockSteps == 4
Instants == { k * ClockStep : k \in 0..MaxClockSteps }

\* the instants at which the surplus regulator is called: MaxSurplusSteps
\* recompute periods of 5 s, then more than the dwell of 60 s later, then more
\* than the reserve period of 5 minutes later
MaxSurplusSteps == 2
SurplusInstants ==
    { k * 5000 : k \in 0..MaxSurplusSteps }
    \cup { MaxSurplusSteps * 5000 + 65000, MaxSurplusSteps * 5000 + 370000 }

\* the instants of a search that reaches and keeps its target: recomputes 5 s
\* apart, then one 60 s and one 65 s after the third
MaxDwellSteps == 4
DwellInstants ==
    { k * 5000 : k \in 1..MaxDwellSteps }
    \cup { MaxDwellSteps * 5000 + 55000, MaxDwellSteps * 5000 + 60000 }

\* the caps of the error counter and of the overrule counter
MaxErrorCount == 1
MaxOverruleCount == 1

----------------------------------------------------------------------------
(* Program constants *)

U16 == 65536
FixedMargin == 10
MeterMaxAge == 30000
TelemetryMaxAge == 10000

\* uint16_t conversion of an int
ToU16(x) == x % U16

\* millis() - t in uint32_t; every stored timestamp is an earlier millis(), and
\* the clock stays far below 2^32 within the instants of the model, so the difference never wraps
Elapsed(t) == now - t

\* int(float): truncation toward zero; the float is held in tenths
TruncToInt(tenths) == IF tenths >= 0 THEN tenths \div 10 ELSE -((-tenths) \div 10)

\* a constrain that forgets the upper bound
constrainNoUpper(amt, low, high) == IF amt < low THEN low ELSE amt

\* Arduino's constrain(amt, low, high)
constrain(amt, low, high) == IF amt < low THEN low ELSE IF amt > high THEN high ELSE amt

----------------------------------------------------------------------------
(* Inputs *)

\* configurations of the limiter: limits in W, thresholds in mV,
\* the load correction factor in mV per W, the interval in s
Configs ==
    { [PowerLimiter_Enabled |-> en,
       PowerLimiter_Interval |-> 10,
       PowerLimiter_IsInverterBehindPowerMeter |-> behind,
       PowerLimiter_LowerPowerLimit |-> 50,
       PowerLimiter_UpperPowerLimit |-> 800,
       PowerLimiter_VoltageStartThreshold |-> th[1],
       PowerLimiter_VoltageStopThreshold |-> th[2],
       PowerLimiter_VoltageLoadCorrectionFactor |-> 10] :
         en \in BOOLEAN, behind \in BOOLEAN, th \in {<<26000, 22000>>, <<0, 0>>} }
    \ { c \in [PowerLimiter_Enabled : {FALSE},
               PowerLimiter_Interval : {10},
               PowerLimiter_IsInverterBehindPowerMeter : BOOLEAN,
               PowerLimiter_LowerPowerLimit : {50},
               PowerLimiter_UpperPowerLimit : {800},
               PowerLimiter_VoltageStartThreshold : {0, 26000},
               PowerLimiter_VoltageStopThreshold : {0, 22000},
               PowerLimiter_VoltageLoadCorrectionFactor : {10}] :
           c.PowerLimiter_IsInverterBehindPowerMeter
             \/ c.PowerLimiter_VoltageStopThreshold = 0 }

\* the meter topics that are configured: PowerLimiter_MqttTopicPowerMeter3 is
\* left empty, so init() subscribes to the topics of meters 1 and 2 only
MeterTopics == {1, 2}

\* payloads of the meter topics, in tenths of a W
Payloads(topic) ==
    CASE topic = 1 -> {-500, 3005}
      [] topic = 2 -> {555, 9000}
      [] topic = 3 -> {6000}

\* what the loop reads of the inverter at position 0: nullptr, or its
\* isReachable(), millis() - Statistics()->getLastUpdate(), isProducing(),
\* FLD_UDC of CH1 and FLD_PAC of CH0
NotRead == [present |-> FALSE, reachable |-> FALSE, age |-> -1,
            producing |-> FALSE, dcVoltage |-> 0, acPower |-> 0]
NoInverter == [present |-> FALSE, reachable |-> FALSE, age |-> 0,
               producing |-> FALSE, dcVoltage |-> 0, acPower |-> 0]
InverterViews ==
    {NoInverter}
    \cup { [NoInverter EXCEPT !.present = TRUE] }
    \cup { [present |-> TRUE, reachable |-> TRUE, age |-> TelemetryMaxAge + 1,
            producing |-> TRUE, dcVoltage |-> 22000, acPower |-> 100] }
    \cup { [present |-> TRUE, reachable |-> TRUE, age |-> a, producing |-> FALSE,
            dcVoltage |-> v, acPower |-> 0] :
              a \in {TelemetryMaxAge}, v \in {0, 22000, 26000} }
    \cup { [present |-> TRUE, reachable |-> TRUE, age |-> a, producing |-> TRUE,
            dcVoltage |-> v, acPower |-> p] :
              a \in {TelemetryMaxAge}, v \in {0, 21000, 22000}, p \in {0, 100} }
    \cup { [present |-> TRUE, reachable |-> TRUE, age |-> 0, producing |-> TRUE,
            dcVoltage |-> 22000, acPower |-> 100] }

StopCmd == [cmd |-> "stop"]
StartCmd == [cmd |-> "start"]
LimitCmd(v) == [cmd |-> "limit", value |-> v, type |-> "AbsolutNonPersistent"]

----------------------------------------------------------------------------
(* SurplusPowerClass: constants *)

MODE_BULK == 3
MODE_ABSORPTION == 4
MODE_FLOAT == 5
RESERVE_POWER_MAX == 99999
\* EFFICIENCY_MPPT 0.97f and EFFICIENCY_INVERTER 0.94f, in percent
EFFICIENCY_MPPT == 97
EFFICIENCY_INVERTER == 94
\* the recompute period 5 * 1000, the dwell 60 * 1000 and the reserve period
\* 5 * 60 * 1000 of calculateSurplusPower, calcAbsorptionFloatMode, calcBulkMode
CalcPeriod == 5000
TargetDwell == 60000
ReservePeriod == 300000
\* the 0.1 V between the MPPT set-point and the target voltage, in mV
TargetMargin == 100
\* the windows of _avgMPPTVoltage and _qualityAVG
AvgWindow == 5
QualityWindow == 20
\* the ages, in s, from which the battery current and the SoC are ignored
BatteryMaxAge == 5
SoCMaxAge == 60

I8 == 256

\* int8_t conversion of an int
ToI8(x) == ((x + 128) % I8) - 128

I16 == 65536

\* int16_t conversion of an int (the type of _powerStepSize)
ToI16(x) == ((x + 32768) % I16) - 32768

Max(a, b) == IF a >= b THEN a ELSE b
Min(a, b) == IF a <= b THEN a ELSE b

\* a float result assigned to an integer: n / d truncated toward zero (d > 0)
TruncDiv(n, d) == IF n >= 0 THEN n \div d ELSE -((-n) \div d)

----------------------------------------------------------------------------
(* WeightedAVG<float>(window): the samples of the window, oldest first *)

RECURSIVE SumSeq(_)
SumSeq(q) == IF q = <<>> THEN 0 ELSE Head(q) + SumSeq(Tail(q))

addNumber(avg, num, window) ==
    IF Len(avg) < window THEN Append(avg, num) ELSE Append(Tail(avg), num)

\* getAverage() >= x
AverageAtLeast(avg, x) == avg # <<>> /\ SumSeq(avg) >= x * Len(avg)

----------------------------------------------------------------------------
(* SurplusPowerClass: configuration *)

\* config.PowerLimiter.TotalUpperPowerLimit and
\* config.PowerLimiter.TargetPowerConsumptionHysteresis, in W
SurplusConfig == [TotalUpperPowerLimit |-> 100, TargetPowerConsumptionHysteresis |-> 39]

----------------------------------------------------------------------------
(* SurplusPowerClass: the object *)

\* the member initialisers of the class
NewSurplusPower ==
    [ stageIIEnabled |-> FALSE, stageIITempOff |-> FALSE,
      surplusState |-> "IDLE", surplusPower |-> 0, powerStepSize |-> 0,
      lastInTargetMillis |-> 0, lastCalcMillis |-> 0,
      surplusUpperPowerLimit |-> 0, avgMPPTVoltage |-> <<>>,
      qualityCounter |-> 0, qualityAVG |-> <<>>, lastAddPower |-> 0,
      overruleCounter |-> 0, errorCounter |-> 0,
      stageIEnabled |-> FALSE, stageITempOff |-> FALSE,
      batteryReserve |-> 0, batterySafetyPercent |-> 0, batteryCapacity |-> 0,
      durationAbsorptionToSunset |-> 0, durationNowToAbsorption |-> 0,
      solarPower |-> 0, startSoC |-> 0, lastReserveCalcMillis |-> 0 ]

\* SurplusPowerClass::updateSettings with config.PowerLimiter.TotalUpperPowerLimit
\* and config.PowerLimiter.TargetPowerConsumptionHysteresis; _startSoC in tenths
\* of a percent
updateSettings(s, totalUpperPowerLimit, hysteresis) ==
    LET startSoC == 800
        batteryCapacity == 2500
        batterySafetyPercent == 30
        durationAbsorptionToSunset == 30
        upper == totalUpperPowerLimit
    IN  [s EXCEPT
          !.stageIEnabled = FALSE,
          !.stageIIEnabled = TRUE,
          !.startSoC = IF startSoC < 400 \/ startSoC > 1000 THEN 700 ELSE startSoC,
          !.batteryCapacity = IF batteryCapacity < 100 \/ batteryCapacity > 40000
                              THEN 2500 ELSE batteryCapacity,
          !.batterySafetyPercent = IF batterySafetyPercent < 0 \/ batterySafetyPercent > 100
                                   THEN 20 ELSE batterySafetyPercent,
          !.durationAbsorptionToSunset =
              IF durationAbsorptionToSunset < 0 \/ durationAbsorptionToSunset > 4 * 60
              THEN 60 ELSE durationAbsorptionToSunset,
          !.surplusUpperPowerLimit = upper,
          !.powerStepSize = ToI16(Max(ToI16(upper \div 20), ToI16(hysteresis)) + 1) ]

\* a stage selection that runs Stage I whether it is enabled or not
StageForNotSwitchedOff(s, vStOfOp) ==
    IF ~s.stageITempOff /\ vStOfOp = MODE_BULK THEN "I"
    ELSE IF s.stageIIEnabled /\ ~s.stageIITempOff
            /\ (vStOfOp = MODE_ABSORPTION \/ vStOfOp = MODE_FLOAT) THEN "II"
    ELSE "none"

\* a choice of the stage that does not look at the temporary switches
StageForEnabledOnly(s, vStOfOp) ==
    IF s.stageIEnabled /\ vStOfOp = MODE_BULK THEN "I"
    ELSE IF s.stageIIEnabled
            /\ (vStOfOp = MODE_ABSORPTION \/ vStOfOp = MODE_FLOAT) THEN "II"
    ELSE "none"

\* the stage a recompute runs for the MPPT mode (lines 129-137)
StageFor(s, vStOfOp) ==
    IF s.stageIEnabled /\ ~s.stageITempOff /\ vStOfOp = MODE_BULK THEN "I"
    ELSE IF s.stageIIEnabled /\ ~s.stageIITempOff
            /\ (vStOfOp = MODE_ABSORPTION \/ vStOfOp = MODE_FLOAT) THEN "II"
    ELSE "none"

\* a missing reading that also sends the regulator back to IDLE
MissingReadingToIdle(s, requestedPower, what) ==
    [s |-> [s EXCEPT !.errorCounter = @ + 1, !.surplusState = "IDLE", !.surplusPower = 0],
     ret |-> requestedPower, path |-> what]

\* a missing reading: the error counter is incremented, requestedPower returned
MissingReading(s, requestedPower, what) ==
    [s |-> [s EXCEPT !.errorCounter = @ + 1], ret |-> requestedPower, path |-> what]

\* a state machine that does not record when the target is reached
StateMachineNoHitTime(s, requestedPower, mpptVoltage, targetVoltage) ==
    LET above == mpptVoltage >= targetVoltage
        step == s.powerStepSize
        entry(e) == [e EXCEPT !.surplusPower = Max(@, requestedPower),
                              !.surplusState = "TRY_MORE",
                              !.qualityCounter = 0,
                              !.overruleCounter = 0,
                              !.qualityAVG = <<>>]
    IN  CASE s.surplusState = "IDLE" ->
               [s |-> entry([s EXCEPT !.errorCounter = 0]), addPower |-> 0]
          [] s.surplusState = "BULK_POWER" ->
               [s |-> entry(s), addPower |-> 0]
          [] s.surplusState = "KEEP_LAST_POWER" ->
               IF above
               THEN [s |-> [s EXCEPT !.surplusState = "TRY_MORE"], addPower |-> step]
               ELSE [s |-> [s EXCEPT !.surplusState = "REDUCE_POWER"], addPower |-> 0]
          [] s.surplusState = "TRY_MORE" ->
               IF above
               THEN [s |-> s, addPower |-> 2 * step]
               ELSE [s |-> [s EXCEPT !.surplusState = "REDUCE_POWER"], addPower |-> -step]
          [] s.surplusState = "REDUCE_POWER" ->
               IF above
               THEN [s |-> [s EXCEPT !.surplusState = "IN_TARGET"], addPower |-> 0]
               ELSE [s |-> s, addPower |-> -step]
          [] s.surplusState \in {"MAXIMUM_POWER", "IN_TARGET"} ->
               IF AverageAtLeast(s.avgMPPTVoltage, targetVoltage) \/ above
               THEN LET probe == Elapsed(s.lastInTargetMillis) > TargetDwell
                        s1 == IF probe THEN [s EXCEPT !.surplusState = "TRY_MORE"] ELSE s
                        s2 == [s1 EXCEPT
                                 !.qualityAVG = IF s.qualityCounter # 0
                                                THEN addNumber(@, s.qualityCounter, QualityWindow)
                                                ELSE @,
                                 !.qualityCounter = 0]
                    IN  [s |-> s2, addPower |-> IF probe THEN step ELSE 0]
               ELSE [s |-> [s EXCEPT !.surplusState = "REDUCE_POWER"], addPower |-> -step]

\* a state machine that probes from its target without a dwell
StateMachineNoDwell(s, requestedPower, mpptVoltage, targetVoltage) ==
    LET above == mpptVoltage >= targetVoltage
        step == s.powerStepSize
        entry(e) == [e EXCEPT !.surplusPower = Max(@, requestedPower),
                              !.surplusState = "TRY_MORE",
                              !.qualityCounter = 0,
                              !.overruleCounter = 0,
                              !.qualityAVG = <<>>]
    IN  CASE s.surplusState = "IDLE" ->
               [s |-> entry([s EXCEPT !.errorCounter = 0]), addPower |-> 0]
          [] s.surplusState = "BULK_POWER" ->
               [s |-> entry(s), addPower |-> 0]
          [] s.surplusState = "KEEP_LAST_POWER" ->
               IF above
               THEN [s |-> [s EXCEPT !.surplusState = "TRY_MORE"], addPower |-> step]
               ELSE [s |-> [s EXCEPT !.surplusState = "REDUCE_POWER"], addPower |-> 0]
          [] s.surplusState = "TRY_MORE" ->
               IF above
               THEN [s |-> s, addPower |-> 2 * step]
               ELSE [s |-> [s EXCEPT !.surplusState = "REDUCE_POWER"], addPower |-> -step]
          [] s.surplusState = "REDUCE_POWER" ->
               IF above
               THEN [s |-> [s EXCEPT !.lastInTargetMillis = now,
                                     !.surplusState = "IN_TARGET"], addPower |-> 0]
               ELSE [s |-> s, addPower |-> -step]
          [] s.surplusState \in {"MAXIMUM_POWER", "IN_TARGET"} ->
               IF AverageAtLeast(s.avgMPPTVoltage, targetVoltage) \/ above
               THEN [s |-> [s EXCEPT
                              !.surplusState = "TRY_MORE",
                              !.qualityAVG = IF s.qualityCounter # 0
                                             THEN addNumber(@, s.qualityCounter, QualityWindow)
                                             ELSE @,
                              !.qualityCounter = 0],
                     addPower |-> step]
               ELSE [s |-> [s EXCEPT !.surplusState = "REDUCE_POWER"], addPower |-> -step]

\* a state machine that decides in TRY_MORE on the average voltage
StateMachineSmoothed(s, requestedPower, mpptVoltage, targetVoltage) ==
    LET above == mpptVoltage >= targetVoltage
        step == s.powerStepSize
        entry(e) == [e EXCEPT !.surplusPower = Max(@, requestedPower),
                              !.surplusState = "TRY_MORE",
                              !.qualityCounter = 0,
                              !.overruleCounter = 0,
                              !.qualityAVG = <<>>]
    IN  CASE s.surplusState = "IDLE" ->
               [s |-> entry([s EXCEPT !.errorCounter = 0]), addPower |-> 0]
          [] s.surplusState = "BULK_POWER" ->
               [s |-> entry(s), addPower |-> 0]
          [] s.surplusState = "KEEP_LAST_POWER" ->
               IF above
               THEN [s |-> [s EXCEPT !.surplusState = "TRY_MORE"], addPower |-> step]
               ELSE [s |-> [s EXCEPT !.surplusState = "REDUCE_POWER"], addPower |-> 0]
          [] s.surplusState = "TRY_MORE" ->
               IF AverageAtLeast(s.avgMPPTVoltage, targetVoltage)
               THEN [s |-> s, addPower |-> 2 * step]
               ELSE [s |-> [s EXCEPT !.surplusState = "REDUCE_POWER"], addPower |-> -step]
          [] s.surplusState = "REDUCE_POWER" ->
               IF above
               THEN [s |-> [s EXCEPT !.lastInTargetMillis = now,
                                     !.surplusState = "IN_TARGET"], addPower |-> 0]
               ELSE [s |-> s, addPower |-> -step]
          [] s.surplusState \in {"MAXIMUM_POWER", "IN_TARGET"} ->
               IF AverageAtLeast(s.avgMPPTVoltage, targetVoltage) \/ above
               THEN LET probe == Elapsed(s.lastInTargetMillis) > TargetDwell
                        s1 == IF probe THEN [s EXCEPT !.surplusState = "TRY_MORE"] ELSE s
                        s2 == [s1 EXCEPT
                                 !.qualityAVG = IF s.qualityCounter # 0
                                                THEN addNumber(@, s.qualityCounter, QualityWindow)
                                                ELSE @,
                                 !.qualityCounter = 0]
                    IN  [s |-> s2, addPower |-> IF probe THEN step ELSE 0]
               ELSE [s |-> [s EXCEPT !.surplusState = "REDUCE_POWER"], addPower |-> -step]

\* a state machine that holds the power in REDUCE_POWER below the target
StateMachineReducesOnce(s, requestedPower, mpptVoltage, targetVoltage) ==
    LET above == mpptVoltage >= targetVoltage
        step == s.powerStepSize
        entry(e) == [e EXCEPT !.surplusPower = Max(@, requestedPower),
                              !.surplusState = "TRY_MORE",
                              !.qualityCounter = 0,
                              !.overruleCounter = 0,
                              !.qualityAVG = <<>>]
    IN  CASE s.surplusState = "IDLE" ->
               [s |-> entry([s EXCEPT !.errorCounter = 0]), addPower |-> 0]
          [] s.surplusState = "BULK_POWER" ->
               [s |-> entry(s), addPower |-> 0]
          [] s.surplusState = "KEEP_LAST_POWER" ->
               IF above
               THEN [s |-> [s EXCEPT !.surplusState = "TRY_MORE"], addPower |-> step]
               ELSE [s |-> [s EXCEPT !.surplusState = "REDUCE_POWER"], addPower |-> 0]
          [] s.surplusState = "TRY_MORE" ->
               IF above
               THEN [s |-> s, addPower |-> 2 * step]
               ELSE [s |-> [s EXCEPT !.surplusState = "REDUCE_POWER"], addPower |-> -step]
          [] s.surplusState = "REDUCE_POWER" ->
               IF above
               THEN [s |-> [s EXCEPT !.lastInTargetMillis = now,
                                     !.surplusState = "IN_TARGET"], addPower |-> 0]
               ELSE [s |-> s, addPower |-> 0]
          [] s.surplusState \in {"MAXIMUM_POWER", "IN_TARGET"} ->
               IF AverageAtLeast(s.avgMPPTVoltage, targetVoltage) \/ above
               THEN LET probe == Elapsed(s.lastInTargetMillis) > TargetDwell
                        s1 == IF probe THEN [s EXCEPT !.surplusState = "TRY_MORE"] ELSE s
                        s2 == [s1 EXCEPT
                                 !.qualityAVG = IF s.qualityCounter # 0
                                                THEN addNumber(@, s.qualityCounter, QualityWindow)
                                                ELSE @,
                                 !.qualityCounter = 0]
                    IN  [s |-> s2, addPower |-> IF probe THEN step ELSE 0]
               ELSE [s |-> [s EXCEPT !.surplusState = "REDUCE_POWER"], addPower |-> -step]

\* lines 193-267: the switch over _surplusState; gives the object and addPower
StateMachine(s, requestedPower, mpptVoltage, targetVoltage) ==
    LET above == mpptVoltage >= targetVoltage
        step == s.powerStepSize
        entry(e) == [e EXCEPT !.surplusPower = Max(@, requestedPower),
                              !.surplusState = "TRY_MORE",
                              !.qualityCounter = 0,
                              !.overruleCounter = 0,
                              !.qualityAVG = <<>>]
    IN  CASE s.surplusState = "IDLE" ->
               [s |-> entry([s EXCEPT !.errorCounter = 0]), addPower |-> 0]
          [] s.surplusState = "BULK_POWER" ->
               [s |-> entry(s), addPower |-> 0]
          [] s.surplusState = "KEEP_LAST_POWER" ->
               IF above
               THEN [s |-> [s EXCEPT !.surplusState = "TRY_MORE"], addPower |-> step]
               ELSE [s |-> [s EXCEPT !.surplusState = "REDUCE_POWER"], addPower |-> 0]
          [] s.surplusState = "TRY_MORE" ->
               IF above
               THEN [s |-> s, addPower |-> 2 * step]
               ELSE [s |-> [s EXCEPT !.surplusState = "REDUCE_POWER"], addPower |-> -step]
          [] s.surplusState = "REDUCE_POWER" ->
               IF above
               THEN [s |-> [s EXCEPT !.lastInTargetMillis = now,
                                     !.surplusState = "IN_TARGET"], addPower |-> 0]
               ELSE [s |-> s, addPower |-> -step]
          [] s.surplusState \in {"MAXIMUM_POWER", "IN_TARGET"} ->
               IF AverageAtLeast(s.avgMPPTVoltage, targetVoltage) \/ above
               THEN LET probe == Elapsed(s.lastInTargetMillis) > TargetDwell
                        s1 == IF probe THEN [s EXCEPT !.surplusState = "TRY_MORE"] ELSE s
                        s2 == [s1 EXCEPT
                                 !.qualityAVG = IF s.qualityCounter # 0
                                                THEN addNumber(@, s.qualityCounter, QualityWindow)
                                                ELSE @,
                                 !.qualityCounter = 0]
                    IN  [s |-> s2, addPower |-> IF probe THEN step ELSE 0]
               ELSE [s |-> [s EXCEPT !.surplusState = "REDUCE_POWER"], addPower |-> -step]

\* an overrule of increases only
OverruleIncreaseOnly(r, battery) ==
    IF /\ r.addPower > 0
       /\ r.s.surplusPower > 0
       /\ battery.enabled /\ battery.currentValid /\ battery.ageSeconds < BatteryMaxAge
       /\ battery.chargeCurrent < 0
    THEN [s |-> [r.s EXCEPT !.surplusState = "REDUCE_POWER",
                            !.overruleCounter = @ + 1],
          addPower |-> -r.s.powerStepSize]
    ELSE r

\* an overrule that lowers the power and leaves the state as it is
OverruleKeepsState(r, battery) ==
    IF /\ r.addPower >= 0
       /\ r.s.surplusPower > 0
       /\ battery.enabled /\ battery.currentValid /\ battery.ageSeconds < BatteryMaxAge
       /\ battery.chargeCurrent < 0
    THEN [s |-> [r.s EXCEPT !.overruleCounter = @ + 1],
          addPower |-> -r.s.powerStepSize]
    ELSE r

\* lines 269-281: the battery current overrules a pending increase
Overrule(r, battery) ==
    IF /\ r.addPower >= 0
       /\ r.s.surplusPower > 0
       /\ battery.enabled /\ battery.currentValid /\ battery.ageSeconds < BatteryMaxAge
       /\ battery.chargeCurrent < 0
    THEN [s |-> [r.s EXCEPT !.surplusState = "REDUCE_POWER",
                            !.overruleCounter = @ + 1],
          addPower |-> -r.s.powerStepSize]
    ELSE r

\* the step applied without the floor at 0
ApplyStepNoFloor(r, requestedPower) ==
    LET raised == r.s.surplusPower + r.addPower
        s1 == IF raised > r.s.surplusUpperPowerLimit
              THEN [r.s EXCEPT !.surplusPower = r.s.surplusUpperPowerLimit,
                               !.surplusState = "MAXIMUM_POWER"]
              ELSE [r.s EXCEPT !.surplusPower = raised]
        backPower == ToU16(s1.surplusPower)
    IN  IF requestedPower > backPower
        THEN [s |-> [s1 EXCEPT !.qualityCounter = 0,
                               !.surplusState = "KEEP_LAST_POWER"],
              ret |-> requestedPower, path |-> "II"]
        ELSE [s |-> [s1 EXCEPT !.lastAddPower = r.addPower],
              ret |-> backPower, path |-> "II"]

\* the step applied without the limitation to the upper power limit
ApplyStepUnlimited(r, requestedPower) ==
    LET s1 == [r.s EXCEPT !.surplusPower = Max(r.s.surplusPower + r.addPower, 0)]
        backPower == ToU16(s1.surplusPower)
    IN  IF requestedPower > backPower
        THEN [s |-> [s1 EXCEPT !.qualityCounter = 0,
                               !.surplusState = "KEEP_LAST_POWER"],
              ret |-> requestedPower, path |-> "II"]
        ELSE [s |-> [s1 EXCEPT !.lastAddPower = r.addPower],
              ret |-> backPower, path |-> "II"]

\* the step applied, with KEEP_LAST_POWER also when requestedPower equals the
\* surplus
ApplyStepKeepInclusive(r, requestedPower) ==
    LET raised == Max(r.s.surplusPower + r.addPower, 0)
        s1 == IF raised > r.s.surplusUpperPowerLimit
              THEN [r.s EXCEPT !.surplusPower = r.s.surplusUpperPowerLimit,
                               !.surplusState = "MAXIMUM_POWER"]
              ELSE [r.s EXCEPT !.surplusPower = raised]
        backPower == ToU16(s1.surplusPower)
        reversal == \/ (s1.lastAddPower < 0 /\ r.addPower > 0)
                    \/ (s1.lastAddPower > 0 /\ r.addPower < 0)
    IN  IF requestedPower >= backPower
        THEN [s |-> [s1 EXCEPT !.qualityCounter = 0,
                               !.surplusState = "KEEP_LAST_POWER"],
              ret |-> requestedPower, path |-> "II"]
        ELSE [s |-> [s1 EXCEPT !.qualityCounter = IF reversal THEN ToI8(@ + 1) ELSE @,
                               !.lastAddPower = r.addPower],
              ret |-> backPower, path |-> "II"]

\* the step applied, with only the reversals from an increase to a decrease
\* counted
ApplyStepOneWay(r, requestedPower) ==
    LET raised == Max(r.s.surplusPower + r.addPower, 0)
        s1 == IF raised > r.s.surplusUpperPowerLimit
              THEN [r.s EXCEPT !.surplusPower = r.s.surplusUpperPowerLimit,
                               !.surplusState = "MAXIMUM_POWER"]
              ELSE [r.s EXCEPT !.surplusPower = raised]
        backPower == ToU16(s1.surplusPower)
        reversal == s1.lastAddPower > 0 /\ r.addPower < 0
    IN  IF requestedPower > backPower
        THEN [s |-> [s1 EXCEPT !.qualityCounter = 0,
                               !.surplusState = "KEEP_LAST_POWER"],
              ret |-> requestedPower, path |-> "II"]
        ELSE [s |-> [s1 EXCEPT !.qualityCounter = IF reversal THEN ToI8(@ + 1) ELSE @,
                               !.lastAddPower = r.addPower],
              ret |-> backPower, path |-> "II"]

\* the step applied, with the power limited but the state left as the state
\* machine set it
ApplyStepKeepsState(r, requestedPower) ==
    LET raised == Max(r.s.surplusPower + r.addPower, 0)
        s1 == [r.s EXCEPT !.surplusPower = Min(raised, r.s.surplusUpperPowerLimit)]
        backPower == ToU16(s1.surplusPower)
        reversal == \/ (s1.lastAddPower < 0 /\ r.addPower > 0)
                    \/ (s1.lastAddPower > 0 /\ r.addPower < 0)
    IN  IF requestedPower > backPower
        THEN [s |-> [s1 EXCEPT !.qualityCounter = 0,
                               !.surplusState = "KEEP_LAST_POWER"],
              ret |-> requestedPower, path |-> "II"]
        ELSE [s |-> [s1 EXCEPT !.qualityCounter = IF reversal THEN ToI8(@ + 1) ELSE @,
                               !.lastAddPower = r.addPower],
              ret |-> backPower, path |-> "II"]

\* lines 283-304: the step is applied, the power limited and floored
ApplyStep(r, requestedPower) ==
    LET raised == Max(r.s.surplusPower + r.addPower, 0)
        atMax == raised > r.s.surplusUpperPowerLimit
        s1 == IF atMax
              THEN [r.s EXCEPT !.surplusPower = r.s.surplusUpperPowerLimit,
                               !.surplusState = "MAXIMUM_POWER"]
              ELSE [r.s EXCEPT !.surplusPower = raised]
        backPower == ToU16(s1.surplusPower)
        reversal == \/ (s1.lastAddPower < 0 /\ r.addPower > 0)
                    \/ (s1.lastAddPower > 0 /\ r.addPower < 0)
    IN  IF requestedPower > backPower
        THEN [s |-> [s1 EXCEPT !.qualityCounter = 0,
                               !.surplusState = "KEEP_LAST_POWER"],
              ret |-> requestedPower, path |-> "II"]
        ELSE [s |-> [s1 EXCEPT !.qualityCounter = IF reversal THEN ToI8(@ + 1) ELSE @,
                               !.lastAddPower = r.addPower],
              ret |-> backPower, path |-> "II"]

\* SurplusPowerClass::calcAbsorptionFloatMode
calcAbsorptionFloatMode(s, requestedPower, modeAF, env) ==
    IF env.absorptionVoltage = <<>> \/ env.floatVoltage = <<>>
    THEN MissingReading(s, requestedPower, "II-no-setpoint")
    ELSE IF env.batteryVoltage = <<>>
    THEN MissingReading(s, requestedPower, "II-no-voltage")
    ELSE LET targetVoltage == (IF modeAF = MODE_ABSORPTION
                               THEN env.absorptionVoltage[1]
                               ELSE env.floatVoltage[1]) - TargetMargin
             mpptVoltage == env.batteryVoltage[1]
             s1 == [s EXCEPT !.avgMPPTVoltage = addNumber(@, mpptVoltage, AvgWindow)]
         IN  ApplyStep(Overrule(StateMachine(s1, requestedPower, mpptVoltage, targetVoltage),
                                env.battery),
                       requestedPower)

\* the values _surplusState takes in one run of calcAbsorptionFloatMode with
\* all readings: at the start, after the switch (lines 193-267), after the
\* overrule (line 277), after the upper limit (line 289) and after the
\* comparison with the requested power (line 296)
StateAssignments(s, requestedPower, modeAF, env) ==
    LET targetVoltage == (IF modeAF = MODE_ABSORPTION
                          THEN env.absorptionVoltage[1]
                          ELSE env.floatVoltage[1]) - TargetMargin
        mpptVoltage == env.batteryVoltage[1]
        s1 == [s EXCEPT !.avgMPPTVoltage = addNumber(@, mpptVoltage, AvgWindow)]
        r1 == StateMachine(s1, requestedPower, mpptVoltage, targetVoltage)
        r2 == Overrule(r1, env.battery)
        limited == IF Max(r2.s.surplusPower + r2.addPower, 0) > r2.s.surplusUpperPowerLimit
                   THEN "MAXIMUM_POWER" ELSE r2.s.surplusState
        r3 == ApplyStep(r2, requestedPower)
    IN  << s.surplusState, r1.s.surplusState, r2.s.surplusState, limited,
           r3.s.surplusState >>

\* SurplusPowerClass::getTimeToSunset: the object and the minutes
getTimeToSunset(s, sun) ==
    IF sun.ok
    THEN [s |-> s, minutes |-> Max(sun.sunsetMinutes - sun.actMinutes, 0)]
    ELSE [s |-> [s EXCEPT !.errorCounter = @ + 1], minutes |-> 0]

\* a reserve without the safety factor
ReservePowerNoSafety(batteryCapacity, soc, minutes, safetyPercent) ==
    TruncDiv(batteryCapacity * (998 - soc) * 6, 100 * minutes)

\* line 398: _batteryCapacity * (0.998f - actSoC / 100.0f) / _durationNowToAbsorption
\* * 60 * (1.0f + _batterySafetyPercent / 100.0f), assigned to an int32_t; the
\* SoC in tenths of a percent
ReservePower(batteryCapacity, soc, minutes, safetyPercent) ==
    TruncDiv(batteryCapacity * (998 - soc) * 6 * (100 + safetyPercent), 10000 * minutes)

\* a battery reserve that is computed by every recompute
ReserveEveryTick(s, soc, sun) ==
    LET t == getTimeToSunset(s, sun)
        duration == t.minutes - s.durationAbsorptionToSunset
    IN  IF duration > 0
        THEN [t.s EXCEPT !.lastReserveCalcMillis = now,
                         !.durationNowToAbsorption = duration,
                         !.batteryReserve =
                             Max(ReservePower(s.batteryCapacity, soc, duration,
                                              s.batterySafetyPercent), 0)]
        ELSE [t.s EXCEPT !.lastReserveCalcMillis = now,
                         !.durationNowToAbsorption = 0,
                         !.batteryReserve = RESERVE_POWER_MAX]

\* lines 384-406: the battery reserve, every 5 minutes
Reserve(s, soc, sun) ==
    IF Elapsed(s.lastReserveCalcMillis) > ReservePeriod
    THEN LET t == getTimeToSunset(s, sun)
             duration == t.minutes - s.durationAbsorptionToSunset
         IN  IF duration > 0
             THEN [t.s EXCEPT !.lastReserveCalcMillis = now,
                              !.durationNowToAbsorption = duration,
                              !.batteryReserve =
                                  Max(ReservePower(s.batteryCapacity, soc, duration,
                                                   s.batterySafetyPercent), 0)]
             ELSE [t.s EXCEPT !.lastReserveCalcMillis = now,
                              !.durationNowToAbsorption = 0,
                              !.batteryReserve = RESERVE_POWER_MAX]
    ELSE s

\* line 409: (_solarPower * EFFICIENCY_MPPT - _batteryReserve) * EFFICIENCY_INVERTER
SurplusOf(solarPower, batteryReserve) ==
    TruncDiv((solarPower * EFFICIENCY_MPPT - batteryReserve * 100) * EFFICIENCY_INVERTER, 10000)

\* SurplusPowerClass::calcBulkMode
calcBulkMode(s, requestedPower, env) ==
    LET startValue == s.startSoC
        stopValue == s.startSoC - 20
        b == env.battery
    IN  IF ~(b.enabled /\ b.socValid /\ b.socAgeSeconds < SoCMaxAge)
        THEN MissingReading(s, requestedPower, "I-no-soc")
        ELSE IF b.soc <= stopValue \/ (b.soc < startValue /\ s.surplusState = "IDLE")
        THEN [s |-> [s EXCEPT !.surplusPower = 0, !.surplusState = "IDLE"],
              ret |-> requestedPower, path |-> "I-idle"]
        ELSE IF env.solarPower = -1
        THEN MissingReading([s EXCEPT !.solarPower = -1], requestedPower, "I-no-solar")
        ELSE LET s1 == [s EXCEPT !.solarPower = env.solarPower]
                 s2 == IF s1.surplusState = "IDLE"
                       THEN [s1 EXCEPT !.batteryReserve = RESERVE_POWER_MAX,
                                       !.lastReserveCalcMillis = 0,
                                       !.surplusPower = 0,
                                       !.errorCounter = 0]
                       ELSE s1
                 s3 == Reserve([s2 EXCEPT !.surplusState = "BULK_POWER"], b.soc, env.sun)
                 power == Min(Max(SurplusOf(s3.solarPower, s3.batteryReserve), 0),
                              s3.surplusUpperPowerLimit)
             IN  [s |-> [s3 EXCEPT !.surplusPower = power],
                  ret |-> Max(ToU16(power), requestedPower), path |-> "I"]

\* a throttle that takes _lastCalcMillis = 0 for "never computed"
ThrottledOnceComputed(s) == s.lastCalcMillis > 0 /\ Elapsed(s.lastCalcMillis) < CalcPeriod

\* lines 107-117: less than 5 s since the last recompute
Throttled(s) == Elapsed(s.lastCalcMillis) < CalcPeriod

\* SurplusPowerClass::calculateSurplusPower as a function of the object: the
\* object after the call, the value returned and the branch taken
CalculateSurplusPower(s, requestedPower, env) ==
    IF Throttled(s)
    THEN [s |-> s,
          ret |-> IF s.surplusPower <= requestedPower
                  THEN requestedPower ELSE ToU16(s.surplusPower),
          path |-> "throttled"]
    ELSE LET s1 == [s EXCEPT !.lastCalcMillis = now] IN
         IF env.mode = <<>>
         THEN MissingReading(s1, requestedPower, "no-mode")
         ELSE LET vStOfOp == env.mode[1]
                  stage == StageFor(s1, vStOfOp)
              IN  CASE stage = "I" -> calcBulkMode(s1, requestedPower, env)
                    [] stage = "II" -> calcAbsorptionFloatMode(s1, requestedPower, vStOfOp, env)
                    [] OTHER -> [s |-> [s1 EXCEPT !.surplusState = "IDLE",
                                                  !.surplusPower = 0],
                                 ret |-> requestedPower, path |-> "none"]

\* SurplusPowerClass::switchSurplusOnOff as a function of the object
SwitchSurplusOnOff(s, onoff) ==
    CASE onoff = "STAGE_I_ON" -> [s |-> [s EXCEPT !.stageITempOff = FALSE], ret |-> TRUE]
      [] onoff = "STAGE_II_ON" -> [s |-> [s EXCEPT !.stageIITempOff = FALSE], ret |-> TRUE]
      [] onoff = "STAGE_I_OFF" ->
           [s |-> [s EXCEPT !.stageITempOff = TRUE, !.surplusPower = 0,
                            !.surplusState = "IDLE"], ret |-> FALSE]
      [] onoff = "STAGE_II_OFF" ->
           [s |-> [s EXCEPT !.stageIITempOff = TRUE, !.surplusPower = 0,
                            !.surplusState = "IDLE"], ret |-> FALSE]
      [] onoff = "STAGE_I_ASK" -> [s |-> s, ret |-> ~s.stageITempOff]
      [] onoff = "STAGE_II_ASK" -> [s |-> s, ret |-> ~s.stageIITempOff]

Switches == {"STAGE_I_ON", "STAGE_I_OFF", "STAGE_I_ASK",
             "STAGE_II_ON", "STAGE_II_OFF", "STAGE_II_ASK"}

\* the calls of calculateSurplusPower that would take a counter past its cap
\* are left out
WithinCaps(s) == s.errorCounter <= MaxErrorCount /\ s.overruleCounter <= MaxOverruleCount

\* a call of calculateSurplusPower
calculateSurplusPower(requestedPower, env) ==
    LET r == CalculateSurplusPower(sp, requestedPower, env) IN
    /\ WithinCaps(r.s)
    /\ sp' = r.s
    /\ returned' = r.ret
    /\ tick' = [op |-> "calculateSurplusPower", requestedPower |-> requestedPower,
                env |-> env, path |-> r.path]
    /\ UNCHANGED <<now, limiterVars, decoderVars, providerVars, meterVars>>

\* a call of switchSurplusOnOff
switchSurplusOnOff(onoff) ==
    LET r == SwitchSurplusOnOff(sp, onoff) IN
    /\ sp' = r.s
    /\ returned' = r.ret
    /\ tick' = [op |-> "switchSurplusOnOff", onoff |-> onoff]
    /\ UNCHANGED <<now, limiterVars, decoderVars, providerVars, meterVars>>

\* the object after construction: the constructor calls updateSettings()
SurplusAsShipped ==
    updateSettings(NewSurplusPower, SurplusConfig.TotalUpperPowerLimit,
                   SurplusConfig.TargetPowerConsumptionHysteresis)

InitSurplus ==
    /\ sp = SurplusAsShipped
    /\ returned = 0

----------------------------------------------------------------------------
(* SurplusPowerClass: inputs *)

\* what Battery.getStats() and config.Battery.Enabled give: the charge current
\* in mA with its validity and age in s, the SoC in tenths of a percent with
\* its validity and age in s
NoBattery == [enabled |-> FALSE, currentValid |-> FALSE, ageSeconds |-> 0,
              chargeCurrent |-> 0, socValid |-> FALSE, socAgeSeconds |-> 0, soc |-> 0]
Discharging(age) == [NoBattery EXCEPT !.enabled = TRUE, !.currentValid = TRUE,
                                       !.ageSeconds = age, !.chargeCurrent = -1000]
WithSoC(soc) == [NoBattery EXCEPT !.enabled = TRUE, !.socValid = TRUE, !.soc = soc]

NoSun == [ok |-> FALSE, actMinutes |-> 0, sunsetMinutes |-> 0]

\* what a recompute reads: VictronMppt.getStateOfOperation(), getVoltage() of
\* ABSORPTION, FLOAT and BATTERY in mV (std::optional: <<>> or <<value>>), the
\* battery, VictronMppt.getPowerOutputWatts() (-1: not available), and the local
\* time and the sunset of getTimeToSunset() in minutes of the day
NoEnv == [mode |-> <<>>, absorptionVoltage |-> <<>>, floatVoltage |-> <<>>,
          batteryVoltage |-> <<>>, battery |-> NoBattery, solarPower |-> -1,
          sun |-> NoSun]

StageIIEnvs(mode) ==
    LET e == [NoEnv EXCEPT !.mode = <<mode>>]
        full == [e EXCEPT !.absorptionVoltage = <<28800>>, !.floatVoltage = <<27600>>]
    IN  IF mode = MODE_FLOAT
        THEN { [full EXCEPT !.batteryVoltage = <<v>>] : v \in {27000, 28750} }
        ELSE { [e EXCEPT !.floatVoltage = <<27600>>], full }
             \cup { [full EXCEPT !.batteryVoltage = <<v>>, !.battery = b] :
                      v \in {27000, 28750}, b \in {NoBattery, Discharging(0)} }

StageIEnvs ==
    LET e == [NoEnv EXCEPT !.mode = <<MODE_BULK>>] IN
    { e, [e EXCEPT !.battery = WithSoC(770)] }
    \cup { [e EXCEPT !.battery = WithSoC(soc)] : soc \in {790, 900} }
    \cup { [e EXCEPT !.battery = WithSoC(soc), !.solarPower = p, !.sun = sun] :
             soc \in {790, 900}, p \in {200, 400},
             sun \in {NoSun, [ok |-> TRUE, actMinutes |-> 1050, sunsetMinutes |-> 1200],
                      [ok |-> TRUE, actMinutes |-> 1180, sunsetMinutes |-> 1200]} }

\* the MPPT modes of a recompute: none reported, off, bulk, absorption, float
Modes == {<<>>, <<0>>, <<MODE_BULK>>, <<MODE_ABSORPTION>>, <<MODE_FLOAT>>}

\* the readings a recompute can find for the mode, those it does not read blank
EnvsFor(mode) ==
    IF mode = <<>> THEN {NoEnv}
    ELSE CASE StageFor(sp, mode[1]) = "I" -> StageIEnvs
           [] StageFor(sp, mode[1]) = "II" -> StageIIEnvs(mode[1])
           [] OTHER -> {[NoEnv EXCEPT !.mode = mode]}

RequestedPowers == {0, 50, 120}

----------------------------------------------------------------------------
(* StatisticsParser and the byte assignment of the HM 2-channel inverters *)

\* the size of the statistics buffer, the channels, the divisor that marks a
\* calculated field and the index of a field that is not in the table
STATISTIC_PACKET_SIZE == 7 * 16
CH0 == 0
CH1 == 1
CMD_CALC == 65535
NoAssignIdx == 255

\* a byteAssign_t; the field, unit and calculation ids by their names
Assign(type, ch, fieldId, unitId, start, num, div, isSigned, digits) ==
    [type |-> type, ch |-> ch, fieldId |-> fieldId, unitId |-> unitId,
     start |-> start, num |-> num, div |-> div, isSigned |-> isSigned,
     digits |-> digits]

\* byteAssignment[] of HM_2CH.cpp
byteAssignment ==
    << Assign("TYPE_DC", CH0, "FLD_UDC", "UNIT_V", 2, 2, 10, FALSE, 1),
       Assign("TYPE_DC", CH0, "FLD_IDC", "UNIT_A", 4, 2, 100, FALSE, 2),
       Assign("TYPE_DC", CH0, "FLD_PDC", "UNIT_W", 6, 2, 10, FALSE, 1),
       Assign("TYPE_DC", CH0, "FLD_YD", "UNIT_WH", 22, 2, 1, FALSE, 0),
       Assign("TYPE_DC", CH0, "FLD_YT", "UNIT_KWH", 14, 4, 1000, FALSE, 3),
       Assign("TYPE_DC", CH0, "FLD_IRR", "UNIT_PCT", "CALC_CH_IRR", CH0, CMD_CALC, FALSE, 3),
       Assign("TYPE_DC", CH1, "FLD_UDC", "UNIT_V", 8, 2, 10, FALSE, 1),
       Assign("TYPE_DC", CH1, "FLD_IDC", "UNIT_A", 10, 2, 100, FALSE, 2),
       Assign("TYPE_DC", CH1, "FLD_PDC", "UNIT_W", 12, 2, 10, FALSE, 1),
       Assign("TYPE_DC", CH1, "FLD_YD", "UNIT_WH", 24, 2, 1, FALSE, 0),
       Assign("TYPE_DC", CH1, "FLD_YT", "UNIT_KWH", 18, 4, 1000, FALSE, 3),
       Assign("TYPE_DC", CH1, "FLD_IRR", "UNIT_PCT", "CALC_CH_IRR", CH1, CMD_CALC, FALSE, 3),
       Assign("TYPE_AC", CH0, "FLD_UAC", "UNIT_V", 26, 2, 10, FALSE, 1),
       Assign("TYPE_AC", CH0, "FLD_IAC", "UNIT_A", 34, 2, 100, FALSE, 2),
       Assign("TYPE_AC", CH0, "FLD_PAC", "UNIT_W", 30, 2, 10, FALSE, 1),
       Assign("TYPE_AC", CH0, "FLD_Q", "UNIT_VAR", 32, 2, 10, FALSE, 1),
       Assign("TYPE_AC", CH0, "FLD_F", "UNIT_HZ", 28, 2, 100, FALSE, 2),
       Assign("TYPE_AC", CH0, "FLD_PF", "UNIT_NONE", 36, 2, 1000, FALSE, 3),
       Assign("TYPE_INV", CH0, "FLD_T", "UNIT_C", 38, 2, 10, TRUE, 1),
       Assign("TYPE_INV", CH0, "FLD_EVT_LOG", "UNIT_NONE", 40, 2, 1, FALSE, 0),
       Assign("TYPE_INV", CH0, "FLD_YD", "UNIT_WH", "CALC_TOTAL_YD", 0, CMD_CALC, FALSE, 0),
       Assign("TYPE_INV", CH0, "FLD_YT", "UNIT_KWH", "CALC_TOTAL_YT", 0, CMD_CALC, FALSE, 3),
       Assign("TYPE_INV", CH0, "FLD_PDC", "UNIT_W", "CALC_TOTAL_PDC", 0, CMD_CALC, FALSE, 1),
       Assign("TYPE_INV", CH0, "FLD_EFF", "UNIT_PCT", "CALC_TOTAL_EFF", 0, CMD_CALC, FALSE, 3) >>

\* the state of a StatisticsParser after construction
InitDecoder ==
    /\ payloadStatistic = [i \in 0..(STATISTIC_PACKET_SIZE - 1) |-> 0]
    /\ statisticLength = 0
    /\ decoded = [kind |-> "none", num |-> 0, div |-> 1]

\* StatisticsParser::getAssignIdxByChannelField: the index of the first
\* descriptor of the channel and field, 0xff when there is none
getAssignIdxByChannelField(channel, fieldId) ==
    LET hits == { i \in 1..Len(byteAssignment) :
                    /\ byteAssignment[i].ch = channel
                    /\ byteAssignment[i].fieldId = fieldId }
    IN  IF hits = {} THEN NoAssignIdx
        ELSE (CHOOSE i \in hits : \A j \in hits : i <= j) - 1

\* the num bytes of the buffer from ptr on, read with the last byte first
RECURSIVE LittleEndian(_, _, _)
LittleEndian(buf, ptr, num) ==
    IF num = 0 THEN 0
    ELSE buf[ptr] + 256 * LittleEndian(buf, ptr + 1, num - 1)

\* the big-endian integer of the num bytes of the buffer from ptr on
RECURSIVE BigEndian(_, _, _)
BigEndian(buf, ptr, num) ==
    IF num = 0 THEN 0
    ELSE BigEndian(buf, ptr, num - 1) * 256 + buf[ptr + num - 1]

\* 2^(8 * num - 1): the first value of num bytes that is negative when signed
RECURSIVE SignBit(_)
SignBit(num) == IF num = 1 THEN 128 ELSE 256 * SignBit(num - 1)

\* StatisticsParser::getChannelFieldValue: the integer decoded and the divisor
\* of the float returned; a calculated field by the name of its function
getChannelFieldValue(channel, fieldId) ==
    LET pos == getAssignIdxByChannelField(channel, fieldId) IN
    IF pos = NoAssignIdx THEN [kind |-> "none", num |-> 0, div |-> 1]
    ELSE LET b == byteAssignment[pos + 1] IN
         IF b.div # CMD_CALC
         THEN LET val == BigEndian(payloadStatistic, b.start, b.num)
              IN  [kind |-> "raw",
                   num |-> IF b.isSigned /\ val >= SignBit(b.num)
                           THEN val - 2 * SignBit(b.num) ELSE val,
                   div |-> b.div]
         ELSE [kind |-> b.start, num |-> 0, div |-> 1]

\* StatisticsParser::clearBuffer
clearBuffer ==
    /\ statisticLength' = 0
    /\ tick' = [op |-> "clearBuffer"]
    /\ UNCHANGED <<payloadStatistic, decoded>>
    /\ UNCHANGED <<now, limiterVars, surplusVars, providerVars, meterVars>>

\* the buffer with the first n bytes of the payload copied to offset
Copied(offset, payload, n) ==
    [i \in DOMAIN payloadStatistic \cup (offset..(offset + n - 1)) |->
        IF i >= offset /\ i < offset + n THEN payload[i - offset + 1]
        ELSE payloadStatistic[i]]

\* an appendFragment that copies whatever it is given
appendFragmentUnchecked(offset, payload, clip) ==
    /\ payloadStatistic' = Copied(offset, payload, Len(payload))
    /\ statisticLength' = Max(statisticLength, offset + Len(payload))
    /\ tick' = [op |-> "appendFragment", offset |-> offset, payload |-> payload]
    /\ UNCHANGED decoded
    /\ UNCHANGED <<now, limiterVars, surplusVars, providerVars, meterVars>>

\* StatisticsParser::appendFragment: a fragment that fits is copied and the
\* length extended to its end; one that does not fit is ignored, or clipped
\* to the size of the buffer
appendFragment(offset, payload, clip) ==
    LET len == Len(payload)
        room == STATISTIC_PACKET_SIZE - offset
    IN  /\ IF offset + len <= STATISTIC_PACKET_SIZE
           THEN /\ payloadStatistic' = Copied(offset, payload, len)
                /\ statisticLength' = Max(statisticLength, offset + len)
           ELSE IF clip /\ room > 0
           THEN /\ payloadStatistic' = Copied(offset, payload, room)
                /\ statisticLength' = STATISTIC_PACKET_SIZE
           ELSE UNCHANGED <<payloadStatistic, statisticLength>>
        /\ tick' = [op |-> "appendFragment", offset |-> offset, payload |-> payload]
        /\ UNCHANGED decoded
        /\ UNCHANGED <<now, limiterVars, surplusVars, providerVars, meterVars>>

\* a call of getChannelFieldValue
readField(channel, fieldId) ==
    /\ decoded' = getChannelFieldValue(channel, fieldId)
    /\ tick' = [op |-> "getChannelFieldValue", channel |-> channel, fieldId |-> fieldId]
    /\ UNCHANGED <<payloadStatistic, statisticLength>>
    /\ UNCHANGED <<now, limiterVars, surplusVars, providerVars, meterVars>>

----------------------------------------------------------------------------
(* SolarChargers::Victron::Provider: its calls, statement by statement *)

\* init() sets up at most three controllers
MaxControllers == 3

\* the arguments of setChargeLimit: a limit and the charge current that
\* belongs to it, in A
ChargePairs == {<<10, 1>>, <<20, 2>>}

\* the provider after construction: no controller, limit and current 0, the
\* mutex free, no call in progress
InitProvider ==
    /\ mutex = "free"
    /\ controllers = <<>>
    /\ chargeLimit = 0
    /\ chargeCurrent = 0
    /\ threads = [loop |-> [pc |-> "idle", overallLimit |-> 0, chargeCurrent |-> 0,
                            listChanging |-> FALSE],
                  setChargeLimit |-> [pc |-> "idle", act_charge_current |-> 0],
                  initController |-> [pc |-> "idle", instance |-> 0],
                  deinit |-> [pc |-> "idle"]]

\* a call is changing the list of controllers
ListChanging ==
    \/ threads.initController.pc = "line61"
    \/ threads.deinit.pc = "line34"

\* a step of a Provider call leaves the rest of the firmware alone
ProviderStep(thread, line) ==
    /\ tick' = [op |-> thread, line |-> line]
    /\ UNCHANGED <<now, limiterVars, surplusVars, decoderVars, meterVars>>

\* Provider::loop, line 74: the lock is taken
loopLock ==
    /\ threads.loop.pc = "idle" /\ mutex = "free"
    /\ mutex' = "loop"
    /\ threads' = [threads EXCEPT !.loop.pc = "line77", !.loop.listChanging = FALSE]
    /\ UNCHANGED <<controllers, chargeLimit, chargeCurrent>>
    /\ ProviderStep("loop", 74)

\* line 77: overallLimit { _chargeLimit }
loopReadLimit ==
    /\ threads.loop.pc = "line77"
    /\ threads' = [threads EXCEPT !.loop.pc = "line82",
                                  !.loop.overallLimit = chargeLimit]
    /\ UNCHANGED <<mutex, controllers, chargeLimit, chargeCurrent>>
    /\ ProviderStep("loop", 77)

\* lines 82-85: the first pass over _controllers
loopSum ==
    /\ threads.loop.pc = "line82"
    /\ threads' = [threads EXCEPT !.loop.pc = "line87",
                                  !.loop.listChanging = @ \/ ListChanging]
    /\ UNCHANGED <<mutex, controllers, chargeLimit, chargeCurrent>>
    /\ ProviderStep("loop", 82)

\* line 87: inverterCurrent { overallChargeCurrent - _chargeCurrent }
loopReadCurrent ==
    /\ threads.loop.pc = "line87"
    /\ threads' = [threads EXCEPT !.loop.pc = "line99",
                                  !.loop.chargeCurrent = chargeCurrent]
    /\ UNCHANGED <<mutex, controllers, chargeLimit, chargeCurrent>>
    /\ ProviderStep("loop", 87)

\* lines 99-112: the second pass over _controllers
loopDistribute ==
    /\ threads.loop.pc = "line99"
    /\ threads' = [threads EXCEPT !.loop.pc = "line113",
                                  !.loop.listChanging = @ \/ ListChanging]
    /\ UNCHANGED <<mutex, controllers, chargeLimit, chargeCurrent>>
    /\ ProviderStep("loop", 99)

\* line 113: the lock is released
loopUnlock ==
    /\ threads.loop.pc = "line113"
    /\ mutex' = "free"
    /\ threads' = [threads EXCEPT !.loop.pc = "idle"]
    /\ UNCHANGED <<controllers, chargeLimit, chargeCurrent>>
    /\ ProviderStep("loop", 113)

\* Provider::setChargeLimit, line 67: _chargeLimit = limit
setChargeLimitLimit(limit, act_charge_current) ==
    /\ threads.setChargeLimit.pc = "idle"
    /\ chargeLimit' = limit
    /\ threads' = [threads EXCEPT !.setChargeLimit =
                       [pc |-> "line68", act_charge_current |-> act_charge_current]]
    /\ UNCHANGED <<mutex, controllers, chargeCurrent>>
    /\ ProviderStep("setChargeLimit", 67)

\* line 68: _chargeCurrent = act_charge_current
setChargeLimitCurrent ==
    /\ threads.setChargeLimit.pc = "line68"
    /\ chargeCurrent' = threads.setChargeLimit.act_charge_current
    /\ threads' = [threads EXCEPT !.setChargeLimit.pc = "idle"]
    /\ UNCHANGED <<mutex, controllers, chargeLimit>>
    /\ ProviderStep("setChargeLimit", 68)

\* Provider::initController, lines 47-60: a controller is made for the instance
initControllerBegin(instance) ==
    /\ threads.initController.pc = "idle"
    /\ Len(controllers) < MaxControllers
    /\ threads' = [threads EXCEPT !.initController =
                       [pc |-> "line61", instance |-> instance]]
    /\ UNCHANGED <<mutex, controllers, chargeLimit, chargeCurrent>>
    /\ ProviderStep("initController", 59)

\* line 61: _controllers.push_back
initControllerPush ==
    /\ threads.initController.pc = "line61"
    /\ controllers' = Append(controllers, threads.initController.instance)
    /\ threads' = [threads EXCEPT !.initController.pc = "idle"]
    /\ UNCHANGED <<mutex, chargeLimit, chargeCurrent>>
    /\ ProviderStep("initController", 61)

\* Provider::deinit, line 32: the lock is taken
deinitLock ==
    /\ threads.deinit.pc = "idle" /\ mutex = "free"
    /\ mutex' = "deinit"
    /\ threads' = [threads EXCEPT !.deinit.pc = "line34"]
    /\ UNCHANGED <<controllers, chargeLimit, chargeCurrent>>
    /\ ProviderStep("deinit", 32)

\* line 34: _controllers.clear()
deinitClear ==
    /\ threads.deinit.pc = "line34"
    /\ controllers' = <<>>
    /\ threads' = [threads EXCEPT !.deinit.pc = "line39"]
    /\ UNCHANGED <<mutex, chargeLimit, chargeCurrent>>
    /\ ProviderStep("deinit", 34)

\* line 39: the lock is released
deinitUnlock ==
    /\ threads.deinit.pc = "line39"
    /\ mutex' = "free"
    /\ threads' = [threads EXCEPT !.deinit.pc = "idle"]
    /\ UNCHANGED <<controllers, chargeLimit, chargeCurrent>>
    /\ ProviderStep("deinit", 39)

----------------------------------------------------------------------------
(* PowerMeters::Provider: gotUpdate and mqttLoop *)

\* std::numeric_limits<uint32_t>::max() / 2
HalfOfAllMillis == 2147483647

\* (a - b) > halfOfAllMillis in uint32_t, for a and b below 2^31: the
\* difference of a < b wraps around to 2^32 + a - b, which is above the half
U32AboveHalf(a, b) ==
    IF a >= b THEN a - b > HalfOfAllMillis
    ELSE ((a - b) + HalfOfAllMillis) + 1 > -1

\* the history of publications stops counting at MaxPublishes
MaxPublishes == 3

InitMeter ==
    /\ lastUpdate = 0
    /\ lastMqttPublish = 0
    /\ publishes = 0

\* Provider::isDataValid
isDataValid == lastUpdate > 0 /\ Elapsed(lastUpdate) < MeterMaxAge

\* line 17 of mqttLoop: the last update is older than the last publication
Published == U32AboveHalf(lastUpdate, lastMqttPublish)

\* Provider::gotUpdate
gotUpdate ==
    /\ lastUpdate' = now
    /\ publishes' = 0
    /\ tick' = [op |-> "gotUpdate"]
    /\ UNCHANGED <<now, lastMqttPublish, limiterVars, surplusVars, decoderVars,
                   providerVars>>

\* Provider::mqttLoop
mqttLoop(connected) ==
    /\ IF ~connected \/ ~isDataValid \/ Published
       THEN /\ tick' = [op |-> "mqttLoop", connected |-> connected, published |-> FALSE]
            /\ UNCHANGED <<lastMqttPublish, publishes>>
       ELSE /\ publishes < MaxPublishes
            /\ tick' = [op |-> "mqttLoop", connected |-> connected, published |-> TRUE]
            /\ publishes' = publishes + 1
            /\ lastMqttPublish' = now
    /\ UNCHANGED <<now, lastUpdate, limiterVars, surplusVars, decoderVars, providerVars>>

----------------------------------------------------------------------------
(* PowerLimiterClass *)

\* the state after PowerLimiterClass::init(): the global object is
\* zero-initialised and init() sets _lastRequestedPowerLimit = 0
InitLimiter ==
    /\ config \in Configs
    /\ lastCommandSent = 0
    /\ lastLoop = 0
    /\ lastPowerMeterUpdate = 0
    /\ lastRequestedPowerLimit = 0
    /\ powerMeter1Power = 0
    /\ powerMeter2Power = 0
    /\ powerMeter3Power = 0
    /\ meterReceipt = [t \in 1..3 |-> 0]
    /\ sent = <<>>

\* PowerLimiterClass::onMqttMessage for the topic of meter 1, 2 or 3
onMqttMessage(topic, payload) ==
    /\ powerMeter1Power' = IF topic = 1 THEN payload ELSE powerMeter1Power
    /\ powerMeter2Power' = IF topic = 2 THEN payload ELSE powerMeter2Power
    /\ powerMeter3Power' = IF topic = 3 THEN payload ELSE powerMeter3Power
    /\ lastPowerMeterUpdate' = now
    /\ meterReceipt' = [meterReceipt EXCEPT ![topic] = now]
    /\ tick' = [op |-> "onMqttMessage", topic |-> topic]
    /\ sent' = <<>>
    /\ UNCHANGED <<now, config, lastCommandSent, lastLoop, lastRequestedPowerLimit>>
    /\ UNCHANGED <<surplusVars, decoderVars, providerVars, meterVars>>

\* a guard that does not look at the clock
LoopGateUntimed(mqttConnected, radioIdle) ==
    \/ ~config.PowerLimiter_Enabled
    \/ ~mqttConnected
    \/ ~radioIdle

\* a guard that does not wait for the radio
LoopGateNoRadio(mqttConnected, radioIdle) ==
    \/ ~config.PowerLimiter_Enabled
    \/ ~mqttConnected
    \/ Elapsed(lastCommandSent) < config.PowerLimiter_Interval * 1000
    \/ Elapsed(lastLoop) < config.PowerLimiter_Interval * 1000

\* the guard of lines 181-185: TRUE when the tick returns at once
LoopGate(mqttConnected, radioIdle) ==
    \/ ~config.PowerLimiter_Enabled
    \/ ~mqttConnected
    \/ ~radioIdle
    \/ Elapsed(lastCommandSent) < config.PowerLimiter_Interval * 1000
    \/ Elapsed(lastLoop) < config.PowerLimiter_Interval * 1000

\* an inverter check that does not look at the age of the statistics
InverterUnusableNoAge(inv) ==
    \/ ~inv.present
    \/ ~inv.reachable

\* lines 193-199: no inverter, or one that is unreachable or whose statistics
\* are too old
InverterUnusable(inv) ==
    \/ ~inv.present
    \/ ~inv.reachable
    \/ inv.age > TelemetryMaxAge

\* meter data that still counts as fresh at exactly 30 s
MeterFreshInclusive == Elapsed(lastPowerMeterUpdate) <= MeterMaxAge

\* lines 203/244: the meter data counts as fresh
MeterFresh == Elapsed(lastPowerMeterUpdate) < MeterMaxAge

\* a stop condition that needs the corrected voltage strictly below the threshold
StopConditionStrict(inv) ==
    /\ inv.dcVoltage > 0
    /\ config.PowerLimiter_VoltageStopThreshold > 0
    /\ inv.dcVoltage + inv.acPower * config.PowerLimiter_VoltageLoadCorrectionFactor
          < config.PowerLimiter_VoltageStopThreshold

\* lines 212-214: the stop condition of a producing inverter
StopCondition(inv) ==
    /\ inv.dcVoltage > 0
    /\ config.PowerLimiter_VoltageStopThreshold > 0
    /\ inv.dcVoltage + inv.acPower * config.PowerLimiter_VoltageLoadCorrectionFactor
          <= config.PowerLimiter_VoltageStopThreshold

\* a start condition that needs the voltage strictly above the threshold
StartConditionStrict(inv) ==
    /\ inv.dcVoltage > 0
    /\ config.PowerLimiter_VoltageStartThreshold > 0
    /\ inv.dcVoltage > config.PowerLimiter_VoltageStartThreshold

\* lines 230-232: the start condition of an inverter that does not produce
StartCondition(inv) ==
    /\ inv.dcVoltage > 0
    /\ config.PowerLimiter_VoltageStartThreshold > 0
    /\ inv.dcVoltage >= config.PowerLimiter_VoltageStartThreshold

\* lines 242-265: uint16_t newPowerLimit of the regular branch
NewPowerLimit ==
    IF MeterFresh
    THEN LET a == ToU16(TruncToInt(powerMeter1Power + powerMeter2Power + powerMeter3Power))
             b == IF config.PowerLimiter_IsInverterBehindPowerMeter
                  THEN ToU16(a + lastRequestedPowerLimit) ELSE a
             c == ToU16(b - FixedMargin)
         IN  constrain(c, ToU16(config.PowerLimiter_LowerPowerLimit),
                          ToU16(config.PowerLimiter_UpperPowerLimit))
    ELSE ToU16(config.PowerLimiter_LowerPowerLimit)

\* a tick whose stop branch sends the lower limit without storing it
loopStopKeepsLimit(mqttConnected, radioIdle, inv) ==
    /\ UNCHANGED <<now, config, lastPowerMeterUpdate, powerMeter1Power,
                   powerMeter2Power, powerMeter3Power, meterReceipt>>
    /\ UNCHANGED <<surplusVars, decoderVars, providerVars, meterVars>>
    /\ IF LoopGate(mqttConnected, radioIdle)
       THEN /\ tick' = [op |-> "loop", branch |-> "idle", mqttConnected |-> mqttConnected,
                        radioIdle |-> radioIdle, inv |-> NotRead]
            /\ sent' = <<>>
            /\ UNCHANGED <<lastLoop, lastCommandSent, lastRequestedPowerLimit>>
       ELSE
         /\ lastLoop' = now
         /\ IF InverterUnusable(inv)
            THEN /\ tick' = [op |-> "loop", branch |-> "abort", mqttConnected |-> mqttConnected,
                             radioIdle |-> radioIdle, inv |-> inv]
                 /\ sent' = <<>>
                 /\ UNCHANGED <<lastCommandSent, lastRequestedPowerLimit>>
            ELSE IF inv.producing /\ StopCondition(inv)
            THEN LET newPowerLimit == ToU16(config.PowerLimiter_LowerPowerLimit) IN
                 /\ tick' = [op |-> "loop", branch |-> "stop", mqttConnected |-> mqttConnected,
                             radioIdle |-> radioIdle, inv |-> inv]
                 /\ sent' = <<StopCmd, LimitCmd(newPowerLimit)>>
                 /\ UNCHANGED lastRequestedPowerLimit
                 /\ lastCommandSent' = now
            ELSE IF ~inv.producing
            THEN IF StartCondition(inv)
                 THEN /\ tick' = [op |-> "loop", branch |-> "start",
                                  mqttConnected |-> mqttConnected,
                                  radioIdle |-> radioIdle, inv |-> inv]
                      /\ sent' = <<StartCmd>>
                      /\ lastCommandSent' = now
                      /\ UNCHANGED lastRequestedPowerLimit
                 ELSE /\ tick' = [op |-> "loop", branch |-> "off",
                                  mqttConnected |-> mqttConnected,
                                  radioIdle |-> radioIdle, inv |-> inv]
                      /\ sent' = <<>>
                      /\ UNCHANGED <<lastCommandSent, lastRequestedPowerLimit>>
            ELSE /\ tick' = [op |-> "loop", branch |-> "limit", mqttConnected |-> mqttConnected,
                             radioIdle |-> radioIdle, inv |-> inv]
                 /\ sent' = <<LimitCmd(NewPowerLimit)>>
                 /\ lastRequestedPowerLimit' = NewPowerLimit
                 /\ lastCommandSent' = now

\* PowerLimiterClass::loop
loop(mqttConnected, radioIdle, inv) ==
    /\ UNCHANGED <<now, config, lastPowerMeterUpdate, powerMeter1Power,
                   powerMeter2Power, powerMeter3Power, meterReceipt>>
    /\ UNCHANGED <<surplusVars, decoderVars, providerVars, meterVars>>
    /\ IF LoopGate(mqttConnected, radioIdle)
       THEN /\ tick' = [op |-> "loop", branch |-> "idle", mqttConnected |-> mqttConnected,
                        radioIdle |-> radioIdle, inv |-> NotRead]
            /\ sent' = <<>>
            /\ UNCHANGED <<lastLoop, lastCommandSent, lastRequestedPowerLimit>>
       ELSE
         /\ lastLoop' = now
         /\ IF InverterUnusable(inv)
            THEN /\ tick' = [op |-> "loop", branch |-> "abort", mqttConnected |-> mqttConnected,
                             radioIdle |-> radioIdle, inv |-> inv]
                 /\ sent' = <<>>
                 /\ UNCHANGED <<lastCommandSent, lastRequestedPowerLimit>>
            ELSE IF inv.producing /\ StopCondition(inv)
            THEN LET newPowerLimit == ToU16(config.PowerLimiter_LowerPowerLimit) IN
                 /\ tick' = [op |-> "loop", branch |-> "stop", mqttConnected |-> mqttConnected,
                             radioIdle |-> radioIdle, inv |-> inv]
                 /\ sent' = <<StopCmd, LimitCmd(newPowerLimit)>>
                 /\ lastRequestedPowerLimit' = newPowerLimit
                 /\ lastCommandSent' = now
            ELSE IF ~inv.producing
            THEN IF StartCondition(inv)
                 THEN /\ tick' = [op |-> "loop", branch |-> "start",
                                  mqttConnected |-> mqttConnected,
                                  radioIdle |-> radioIdle, inv |-> inv]
                      /\ sent' = <<StartCmd>>
                      /\ lastCommandSent' = now
                      /\ UNCHANGED lastRequestedPowerLimit
                 ELSE /\ tick' = [op |-> "loop", branch |-> "off",
                                  mqttConnected |-> mqttConnected,
                                  radioIdle |-> radioIdle, inv |-> inv]
                      /\ sent' = <<>>
                      /\ UNCHANGED <<lastCommandSent, lastRequestedPowerLimit>>
            ELSE /\ tick' = [op |-> "loop", branch |-> "limit", mqttConnected |-> mqttConnected,
                             radioIdle |-> radioIdle, inv |-> inv]
                 /\ sent' = <<LimitCmd(NewPowerLimit)>>
                 /\ lastRequestedPowerLimit' = NewPowerLimit
                 /\ lastCommandSent' = now

\* millis() advances to the instant t between two operations
Advance(t) ==
    /\ t > now
    /\ now' = t
    /\ tick' = [op |-> "advance"]
    /\ sent' = <<>>
    /\ UNCHANGED <<config, lastCommandSent, lastLoop, lastPowerMeterUpdate,
                   lastRequestedPowerLimit, powerMeter1Power, powerMeter2Power,
                   powerMeter3Power, meterReceipt>>
    /\ UNCHANGED <<surplusVars, decoderVars, providerVars, meterVars>>

Init ==
    /\ now = 0
    /\ tick = [op |-> "init"]
    /\ InitLimiter
    /\ InitSurplus
    /\ InitDecoder
    /\ InitProvider
    /\ InitMeter

\* one scheduler tick of the limiter: the inverter is read only by a tick
\* that passes the guard
loopTask ==
    \E link \in {<<TRUE, TRUE>>, <<FALSE, TRUE>>, <<TRUE, FALSE>>} :
       IF LoopGate(link[1], link[2])
       THEN loop(link[1], link[2], NotRead)
       ELSE \E inv \in InverterViews : loop(link[1], link[2], inv)

mqttTask ==
    \E topic \in MeterTopics : \E payload \in Payloads(topic) : onMqttMessage(topic, payload)

clock == \E t \in Instants : Advance(t)

Next == clock \/ mqttTask \/ loopTask

Spec == Init /\ [][Next]_vars

----------------------------------------------------------------------------
(* The limiter on a clock finer than its interval *)

\* millis() in steps of half the interval of 10 s
SpacingStep == 5000
MaxSpacingSteps == 5
SpacingInstants == { k * SpacingStep : k \in 0..MaxSpacingSteps }

spacingClock == \E t \in SpacingInstants : Advance(t)

NextC == spacingClock \/ mqttTask \/ loopTask

SpecC == Init /\ [][NextC]_vars

----------------------------------------------------------------------------
(* The surplus regulator on its own *)

\* the surplus regulator after construction, as shipped: updateSettings()
\* disables Stage I and enables Stage II; the limiter stays in its start state
InitS ==
    /\ now = 0
    /\ tick = [op |-> "init"]
    /\ InitLimiter
    /\ InitDecoder
    /\ InitProvider
    /\ InitMeter
    /\ config.PowerLimiter_Enabled /\ ~config.PowerLimiter_IsInverterBehindPowerMeter
    /\ config.PowerLimiter_VoltageStopThreshold = 0
    /\ sp = SurplusAsShipped
    /\ returned = 0

\* one call of calculateSurplusPower by the limiter task
surplusTask ==
    \E requestedPower \in RequestedPowers :
       IF Throttled(sp)
       THEN calculateSurplusPower(requestedPower, NoEnv)
       ELSE \E mode \in Modes : \E env \in EnvsFor(mode) :
               calculateSurplusPower(requestedPower, env)

switchTask == \E onoff \in Switches : switchSurplusOnOff(onoff)

surplusClock == \E t \in SurplusInstants : Advance(t)

NextS == surplusClock \/ surplusTask \/ switchTask

SpecS == InitS /\ [][NextS]_vars

----------------------------------------------------------------------------
(* The surplus regulator on its own, with the clock of a search that dwells *)

dwellClock == \E t \in DwellInstants : Advance(t)

NextT == dwellClock \/ surplusTask

SpecT == InitS /\ [][NextT]_vars

----------------------------------------------------------------------------
(* The settings of the surplus regulator over the configuration values *)

\* upper power limits of the configuration, around the multiples of 20
UpperLimits == {0, 1, 19, 20, 21, 100, 800, 2000, 32767, 65535}

\* hysteresis values of the configuration, around the step of the upper
\* limits and around the largest value of the step size
Hystereses == {0, 1, 4, 5, 39, 40, 41, 100, 3276, 3277, 32766, 32767}

\* one call of updateSettings after a change of the configuration
settingsTask ==
    \E upperLimit \in UpperLimits : \E hysteresis \in Hystereses :
       /\ sp' = updateSettings(sp, upperLimit, hysteresis)
       /\ tick' = [op |-> "updateSettings", upperLimit |-> upperLimit,
                   hysteresis |-> hysteresis]
       /\ UNCHANGED <<now, returned, limiterVars, decoderVars, providerVars, meterVars>>

NextU == settingsTask

SpecU == InitS /\ [][NextU]_vars


----------------------------------------------------------------------------
(* The surplus regulator with Stage I enabled *)

\* the instants at which the regulator with Stage I is called: MaxStageISteps
\* recompute periods of 5 s, then more than the reserve period of 5 minutes later
MaxStageISteps == 4
StageIInstants ==
    { k * 5000 : k \in 0..MaxStageISteps } \cup { MaxStageISteps * 5000 + 305000 }

\* the readings a recompute with Stage I enabled can find for the mode
StageIModes == {<<>>, <<MODE_BULK>>, <<MODE_ABSORPTION>>}
StageIRequestedPowers == {0, 50}
BulkEnvs ==
    LET e == [NoEnv EXCEPT !.mode = <<MODE_BULK>>]
        day == [ok |-> TRUE, actMinutes |-> 1050, sunsetMinutes |-> 1200]
        evening == [ok |-> TRUE, actMinutes |-> 1180, sunsetMinutes |-> 1200]
    IN  { e, [e EXCEPT !.battery = WithSoC(770)], [e EXCEPT !.battery = WithSoC(900)],
          [e EXCEPT !.battery = WithSoC(1000), !.solarPower = 200, !.sun = day] }
        \cup { [e EXCEPT !.battery = WithSoC(900), !.solarPower = p, !.sun = sun] :
                 p \in {200, 400}, sun \in {NoSun, day, evening} }
AbsorptionEnvs ==
    LET e == [NoEnv EXCEPT !.mode = <<MODE_ABSORPTION>>]
        full == [e EXCEPT !.absorptionVoltage = <<28800>>, !.floatVoltage = <<27600>>]
    IN  { [e EXCEPT !.absorptionVoltage = <<28800>>], full,
          [full EXCEPT !.batteryVoltage = <<27000>>],
          [full EXCEPT !.batteryVoltage = <<28750>>],
          [full EXCEPT !.batteryVoltage = <<28750>>, !.battery = Discharging(0)] }
StageIEnvsFor(mode) ==
    IF mode = <<>> THEN {NoEnv}
    ELSE CASE StageFor(sp, mode[1]) = "I" -> BulkEnvs
           [] StageFor(sp, mode[1]) = "II" -> AbsorptionEnvs
           [] OTHER -> {[NoEnv EXCEPT !.mode = mode]}

\* the surplus regulator after construction with Stage I enabled, the setting
\* that line 68 of updateSettings() fixes until it is read from the
\* configuration
InitI ==
    /\ now = 0
    /\ tick = [op |-> "init"]
    /\ InitLimiter
    /\ InitDecoder
    /\ InitProvider
    /\ InitMeter
    /\ config.PowerLimiter_Enabled /\ ~config.PowerLimiter_IsInverterBehindPowerMeter
    /\ config.PowerLimiter_VoltageStopThreshold = 0
    /\ sp = [SurplusAsShipped EXCEPT !.stageIEnabled = TRUE]
    /\ returned = 0

stageITask ==
    \E requestedPower \in StageIRequestedPowers :
       IF Throttled(sp)
       THEN calculateSurplusPower(requestedPower, NoEnv)
       ELSE \E mode \in StageIModes : \E env \in StageIEnvsFor(mode) :
               calculateSurplusPower(requestedPower, env)

stageIClock == \E t \in StageIInstants : Advance(t)

NextI == stageIClock \/ stageITask

SpecI == InitI /\ [][NextI]_vars

----------------------------------------------------------------------------
(* The surplus regulator with Stage I enabled and the runtime switches *)

NextW == stageIClock \/ stageITask \/ switchTask

SpecW == InitI /\ [][NextW]_vars

----------------------------------------------------------------------------
(* The surplus regulator as shipped, called for ever *)

\* millis() at the start, and the time between two calls of the regulator
LiveNow == 105000
LiveStep == 35000

\* the reversals and the quality samples up to which the recomputes away from
\* the target are followed
MaxLiveReversals == 1
MaxLiveSamples == 1

\* the readings of the recomputes: absorption mode, the battery voltage below
\* or above the target of 28.7 V, the battery discharging or not read
LiveRequestedPowers == {0, 50}
LiveEnvs ==
    LET e == [NoEnv EXCEPT !.mode = <<MODE_ABSORPTION>>,
                           !.absorptionVoltage = <<28800>>, !.floatVoltage = <<27600>>]
    IN  { [e EXCEPT !.batteryVoltage = <<v>>, !.battery = b] :
            v \in {27000, 28750}, b \in {NoBattery, Discharging(0)} }

\* the readings that let the search rise: the voltage at its target, the
\* battery not discharging, the requested power within the upper limit
Rising(requestedPower, env) ==
    /\ env.batteryVoltage[1] >= env.absorptionVoltage[1] - TargetMargin
    /\ ~(env.battery.enabled /\ env.battery.currentValid
           /\ env.battery.ageSeconds < BatteryMaxAge /\ env.battery.chargeCurrent < 0)
    /\ requestedPower <= sp.surplusUpperPowerLimit

\* the recomputes that do not let the search rise are followed as long as they
\* keep the reversals and the quality samples within the bounds
WithinLiveBounds(s) ==
    /\ s.qualityCounter <= Max(sp.qualityCounter, MaxLiveReversals)
    /\ Len(s.qualityAVG) <= Max(Len(sp.qualityAVG), MaxLiveSamples)

InitL ==
    /\ now = LiveNow
    /\ tick = [op |-> "init"]
    /\ InitLimiter
    /\ InitDecoder
    /\ InitProvider
    /\ InitMeter
    /\ config.PowerLimiter_Enabled /\ ~config.PowerLimiter_IsInverterBehindPowerMeter
    /\ config.PowerLimiter_VoltageStopThreshold = 0
    /\ sp = SurplusAsShipped
    /\ returned = 0

\* millis() advances by LiveStep. The regulator compares millis() only with
\* its own timestamps, so the timestamps are moved back instead, and no
\* further than beyond the period they are compared with: one step for the
\* recompute period of 5 s, two steps for the dwell of 60 s
passTime ==
    /\ sp' = [sp EXCEPT
                !.lastCalcMillis = now - Min(Elapsed(@) + LiveStep, LiveStep),
                !.lastInTargetMillis = now - Min(Elapsed(@) + LiveStep, 2 * LiveStep)]
    /\ tick' = [op |-> "advance"]
    /\ UNCHANGED <<now, returned, limiterVars, decoderVars, providerVars, meterVars>>

\* a call that recomputes
liveRecompute ==
    /\ ~Throttled(sp)
    /\ \E requestedPower \in LiveRequestedPowers : \E env \in LiveEnvs :
          /\ \/ Rising(requestedPower, env)
             \/ WithinLiveBounds(CalculateSurplusPower(sp, requestedPower, env).s)
          /\ calculateSurplusPower(requestedPower, env)

\* a call within the 5 s after a recompute
liveThrottled ==
    /\ Throttled(sp)
    /\ \E requestedPower \in LiveRequestedPowers :
          calculateSurplusPower(requestedPower, NoEnv)

NextL == passTime \/ liveRecompute \/ liveThrottled

\* time passes, and the limiter task calls the regulator periodically: a
\* recompute is the only step that makes Throttled true and the passing of
\* time makes it false again, so Throttled holds again and again exactly when
\* the regulator recomputes again and again
SpecL ==
    /\ InitL /\ [][NextL]_vars
    /\ WF_vars(passTime) /\ []<>Throttled(sp)

----------------------------------------------------------------------------
(* The surplus regulator with Stage I, with the clock of the reserve period *)

\* the instants of the recomputes: every 5 s once the uptime is above the
\* reserve period, then exactly one period and more than one period after the
\* first of them
MaxReserveSteps == 2
ReserveInstants ==
    { 305000 + k * 5000 : k \in 0..MaxReserveSteps } \cup { 605000, 610000 }

reserveClock == \E t \in ReserveInstants : Advance(t)

NextR == reserveClock \/ stageITask

SpecR == InitI /\ [][NextR]_vars

----------------------------------------------------------------------------
(* The limiter and the surplus regulator as the two tasks of the control loop *)

\* the instants of the control loop: one limiter interval apart
MaxLoopSteps == 3
LoopInstants == { k * 10000 : k \in 1..MaxLoopSteps }

\* the readings of the regulator in the control loop: absorption mode
LoopRequestedPowers == {0, 50}

InitB ==
    /\ now = 0
    /\ tick = [op |-> "init"]
    /\ InitLimiter
    /\ InitDecoder
    /\ InitProvider
    /\ InitMeter
    /\ config.PowerLimiter_Enabled /\ ~config.PowerLimiter_IsInverterBehindPowerMeter
    /\ config.PowerLimiter_VoltageStopThreshold > 0
    /\ sp = SurplusAsShipped
    /\ returned = 0

regulatorTask ==
    \E requestedPower \in LoopRequestedPowers :
       IF Throttled(sp)
       THEN calculateSurplusPower(requestedPower, NoEnv)
       ELSE \E env \in AbsorptionEnvs : calculateSurplusPower(requestedPower, env)

loopClock == \E t \in LoopInstants : Advance(t)

NextB == loopClock \/ loopTask \/ regulatorTask

SpecB == InitB /\ [][NextB]_vars

----------------------------------------------------------------------------
(* The publication of the power meter on its own *)

\* the instants of the meter: MaxMeterSteps of them 1 s apart, and as many
\* again from 30 s after the first
MaxMeterSteps == 3
MeterInstants ==
    { k * 1000 : k \in 1..MaxMeterSteps } \cup { 30000 + k * 1000 : k \in 1..MaxMeterSteps }

meterClock == \E t \in MeterInstants : Advance(t)

updateTask == gotUpdate

publishTask == \E connected \in BOOLEAN : mqttLoop(connected)

NextM == meterClock \/ updateTask \/ publishTask

SpecM == InitS /\ [][NextM]_vars

----------------------------------------------------------------------------
(* The telemetry decoder on its own *)

\* the fragments a reception appends: offset and payload. The last ones do not
\* fit into the buffer
Fragments ==
    { <<2, <<0, 100>>>>, <<2, <<255, 56>>>>, <<38, <<255, 56>>>>, <<38, <<0, 100>>>>,
      <<14, <<0, 1, 0, 44>>>>, <<30, <<1, 44>>>>,
      <<110, <<0, 100>>>>, <<111, <<0, 100>>>>, <<104, <<1, 2, 3, 4, 5, 6, 7, 8, 9, 10>>>>,
      <<250, <<0, 100>>>> }

\* the channels and fields that are asked for
Queries ==
    { <<CH0, "FLD_UDC">>, <<CH1, "FLD_UDC">>, <<CH0, "FLD_YT">>, <<CH0, "FLD_T">>,
      <<CH0, "FLD_PAC">>, <<CH0, "FLD_YD">>, <<CH1, "FLD_T">> }

\* the limiter and the regulator stay in their start state
InitD ==
    /\ now = 0
    /\ tick = [op |-> "init"]
    /\ InitLimiter
    /\ config.PowerLimiter_Enabled /\ ~config.PowerLimiter_IsInverterBehindPowerMeter
    /\ config.PowerLimiter_VoltageStopThreshold = 0
    /\ InitSurplus
    /\ InitDecoder
    /\ InitProvider
    /\ InitMeter

receiveTask ==
    \E f \in Fragments : \E clip \in BOOLEAN : appendFragment(f[1], f[2], clip)

queryTask == \E q \in Queries : readField(q[1], q[2])

NextD == receiveTask \/ clearBuffer \/ queryTask

SpecD == InitD /\ [][NextD]_vars

----------------------------------------------------------------------------
(* The Victron provider on its own: its calls run concurrently *)

loopThread ==
    \/ loopLock \/ loopReadLimit \/ loopSum
    \/ loopReadCurrent \/ loopDistribute \/ loopUnlock

setChargeLimitThread ==
    \/ \E pair \in ChargePairs : setChargeLimitLimit(pair[1], pair[2])
    \/ setChargeLimitCurrent

initControllerThread ==
    \/ \E instance \in 1..MaxControllers : initControllerBegin(instance)
    \/ initControllerPush

deinitThread == deinitLock \/ deinitClear \/ deinitUnlock

NextV == loopThread \/ setChargeLimitThread \/ initControllerThread \/ deinitThread

SpecV == InitD /\ [][NextV]_vars

----------------------------------------------------------------------------
(* Properties of the Base Limiter, checked under Spec *)

LowerLimit == config.PowerLimiter_LowerPowerLimit
UpperLimit == config.PowerLimiter_UpperPowerLimit
IntervalMs == config.PowerLimiter_Interval * 1000

\* the sum of the three stored meter readings, in tenths of a W
MeterSumTenths == powerMeter1Power + powerMeter2Power + powerMeter3Power

\* the values carried by the power-limit commands of the last operation
LimitsSent == { sent[i].value : i \in { j \in 1..Len(sent) : sent[j].cmd = "limit" } }

\* the tick that leads to the primed state is a loop() that passed the guard
\* of lines 181-185 and found a usable inverter
ActiveTick ==
    /\ tick'.op = "loop"
    /\ ~LoopGate(tick'.mqttConnected, tick'.radioIdle)
UsableTick ==
    /\ ActiveTick
    /\ tick'.inv.present /\ tick'.inv.reachable /\ tick'.inv.age <= TelemetryMaxAge

\* C2: every power-limit command sent by loop(), in the stop branch and in the
\* regular branch, carries a value within [lowerLimit, upperLimit]
C2_LimitWithinBounds ==
    \A v \in LimitsSent : LowerLimit <= v /\ v <= UpperLimit

\* a regular limit tick on fresh meter data whose sum is negative (grid export)
C2_Witness ==
    /\ tick.op = "loop" /\ tick.branch = "limit"
    /\ MeterFresh /\ MeterSumTenths < 0
    /\ LimitsSent # {}

\* C3: with a fresh meter reading and a producing inverter the limit sent is
\* clamp(sum [+ lastRequestedLimit] - 10, lowerLimit, upperLimit) in ordinary
\* integer arithmetic, for every integer meter sum (stated for the ticks made
\* after a meter message has arrived)
C3_LimitIsClampedSum ==
    [][ ( /\ UsableTick
          /\ tick'.branch = "limit"
          /\ lastPowerMeterUpdate > 0
          /\ MeterFresh
          /\ MeterSumTenths % 10 = 0 )
        => sent' = << LimitCmd(constrain(
                        (MeterSumTenths \div 10)
                          + (IF config.PowerLimiter_IsInverterBehindPowerMeter
                             THEN lastRequestedPowerLimit ELSE 0)
                          - FixedMargin,
                        LowerLimit, UpperLimit)) >> ]_vars

\* every meter reading was received at least 30000 ms ago
AllMetersStale == \A t \in 1..3 : Elapsed(meterReceipt[t]) >= MeterMaxAge

\* C4: a tick that reaches the limit computation while all meter readings are
\* at least 30000 ms old sends lowerLimit
C4_StaleMetersGiveLowerLimit ==
    (tick.op = "loop" /\ tick.branch = "limit" /\ AllMetersStale)
       => sent = << LimitCmd(LowerLimit) >>

\* a limit tick 30000 ms or more after the last of the readings, whose sum would
\* have given another limit
C4_Witness ==
    /\ tick.op = "loop" /\ tick.branch = "limit" /\ AllMetersStale
    /\ MeterSumTenths > 10 * (LowerLimit + FixedMargin)
    /\ sent = << LimitCmd(LowerLimit) >>

\* the reading of topic t as the loop would see it if each reading carried its
\* own receipt time: absent once it is 30 s old
FreshReading(t, value) == IF Elapsed(meterReceipt[t]) < MeterMaxAge THEN value ELSE 0

\* C5: each source's reading counts in the sum only if that reading was received
\* less than 30 s ago, also when another source was updated recently
C5_OnlyFreshReadingsCount ==
    [][ ( /\ UsableTick
          /\ tick'.branch = "limit"
          /\ \E t \in 1..3 : Elapsed(meterReceipt[t]) < MeterMaxAge )
        => LET sum == TruncToInt(FreshReading(1, powerMeter1Power)
                                 + FreshReading(2, powerMeter2Power)
                                 + FreshReading(3, powerMeter3Power))
               b == IF config.PowerLimiter_IsInverterBehindPowerMeter
                    THEN ToU16(ToU16(sum) + lastRequestedPowerLimit) ELSE ToU16(sum)
           IN  sent' = << LimitCmd(constrain(ToU16(b - FixedMargin),
                                             LowerLimit, UpperLimit)) >> ]_vars

\* C6: a tick is a no-op when the feature is disabled, the link is down, the
\* radio is busy or less than the interval has elapsed since the last loop tick
\* or the last command: no command, no change of the control state
C6_GatedTickIsNoOp ==
    [][ ( /\ tick'.op = "loop"
          /\ \/ ~config.PowerLimiter_Enabled
             \/ ~tick'.mqttConnected
             \/ ~tick'.radioIdle
             \/ Elapsed(lastLoop) < IntervalMs
             \/ Elapsed(lastCommandSent) < IntervalMs )
        => /\ sent' = <<>>
           /\ UNCHANGED <<lastLoop, lastCommandSent, lastRequestedPowerLimit,
                          lastPowerMeterUpdate, powerMeter1Power, powerMeter2Power,
                          powerMeter3Power>> ]_vars

\* a tick with the feature enabled, the link up and the radio idle, made less
\* than the interval after an earlier active tick
C6_Witness ==
    /\ tick.op = "loop" /\ tick.branch = "idle"
    /\ config.PowerLimiter_Enabled /\ tick.mqttConnected /\ tick.radioIdle
    /\ lastLoop > 0 /\ Elapsed(lastLoop) < IntervalMs

\* C7: an active tick whose inverter is missing, unreachable or has telemetry
\* older than 10 s sends nothing and keeps the last requested limit and the
\* last-command timestamp
C7_UnusableInverterHoldsLimit ==
    [][ ( /\ ActiveTick
          /\ \/ ~tick'.inv.present
             \/ ~tick'.inv.reachable
             \/ tick'.inv.age > 10000 )
        => /\ sent' = <<>>
           /\ UNCHANGED <<lastRequestedPowerLimit, lastCommandSent>> ]_vars

\* an active tick with stale telemetry, after a limit had been requested
C7_Witness ==
    /\ tick.op = "loop" /\ tick.branch = "abort"
    /\ tick.inv.present /\ tick.inv.reachable /\ tick.inv.age > 10000
    /\ lastRequestedPowerLimit > 0 /\ lastLoop = now /\ lastCommandSent < now

\* dcVoltage + acPower * voltageLoadCorrectionFactor of the tick's inverter
CorrectedVoltage(inv) ==
    inv.dcVoltage + inv.acPower * config.PowerLimiter_VoltageLoadCorrectionFactor

\* what the stop branch does: stop, then the lower limit as an absolute
\* non-persistent limit, recorded with the current time, and nothing else
StopEffect ==
    /\ sent' = << StopCmd, LimitCmd(LowerLimit) >>
    /\ lastRequestedPowerLimit' = LowerLimit
    /\ lastCommandSent' = now

\* C8 as stated: producing, stop threshold enabled and correctedVoltage <=
\* stopThreshold imply the stop branch
C8_StopWheneverCorrectedVoltageLow ==
    [][ ( /\ UsableTick
          /\ tick'.inv.producing
          /\ config.PowerLimiter_VoltageStopThreshold > 0
          /\ CorrectedVoltage(tick'.inv) <= config.PowerLimiter_VoltageStopThreshold )
        => StopEffect ]_vars

\* C8 as amended: the same with a DC voltage reading above 0
C8_StopWhenVoltagePositiveAndLow ==
    [][ ( /\ UsableTick
          /\ tick'.inv.producing
          /\ tick'.inv.dcVoltage > 0
          /\ config.PowerLimiter_VoltageStopThreshold > 0
          /\ CorrectedVoltage(tick'.inv) <= config.PowerLimiter_VoltageStopThreshold )
        => StopEffect ]_vars

\* a stop tick whose corrected voltage is exactly the threshold while another
\* limit had been requested before
C8_Witness ==
    /\ tick.op = "loop" /\ tick.branch = "stop"
    /\ tick.inv.acPower > 0
    /\ CorrectedVoltage(tick.inv) = config.PowerLimiter_VoltageStopThreshold
    /\ sent = << StopCmd, LimitCmd(LowerLimit) >>
    /\ lastCommandSent = now

\* C9: on an active tick with an inverter that does not produce, a start command
\* is sent exactly when the start threshold is enabled and dcVoltage >=
\* startThreshold; no power-limit command, the last requested limit unchanged
C9_StartExactlyAboveThreshold ==
    [][ ( /\ UsableTick
          /\ ~tick'.inv.producing )
        => /\ sent' = IF /\ config.PowerLimiter_VoltageStartThreshold > 0
                         /\ tick'.inv.dcVoltage >= config.PowerLimiter_VoltageStartThreshold
                      THEN << StartCmd >> ELSE <<>>
           /\ UNCHANGED lastRequestedPowerLimit ]_vars

\* a start tick at exactly the threshold, after a limit had been requested
C9_Witness ==
    /\ tick.op = "loop" /\ tick.branch = "start"
    /\ tick.inv.dcVoltage = config.PowerLimiter_VoltageStartThreshold
    /\ sent = << StartCmd >>
    /\ lastRequestedPowerLimit > 0

----------------------------------------------------------------------------
(* Properties of the Surplus Regulator, checked under SpecS *)

\* the last operation was a call of calculateSurplusPower
SurplusCall == tick.op = "calculateSurplusPower"

\* C1 as stated: every call of calculateSurplusPower returns at least
\* requestedPower and a value within [0, upperLimit]
C1_ReturnedWithinUpperLimit ==
    SurplusCall =>
       /\ returned >= tick.requestedPower
       /\ 0 <= returned /\ returned <= sp.surplusUpperPowerLimit

\* C1: every call of calculateSurplusPower, after any calls and switch
\* operations, returns at least requestedPower and at most the larger of
\* requestedPower and the upper limit, and the surplus power the regulator
\* holds lies within [0, upperLimit]
C1_ReturnedFlooredSurplusWithinLimit ==
    /\ 0 <= sp.surplusPower /\ sp.surplusPower <= sp.surplusUpperPowerLimit
    /\ SurplusCall =>
          /\ returned >= tick.requestedPower
          /\ returned <= Max(tick.requestedPower, sp.surplusUpperPowerLimit)

\* a Stage II recompute of a search that the battery current has overruled before,
\* returning a surplus above requestedPower and below the upper limit
C1_Witness ==
    /\ SurplusCall
    /\ tick.path = "II"
    /\ sp.surplusState = "TRY_MORE"
    /\ sp.overruleCounter > 0
    /\ returned > tick.requestedPower
    /\ returned = sp.surplusUpperPowerLimit - 20

\* C10: a call of calculateSurplusPower made less than 5 s after the last
\* recompute returns max(previous surplus, requestedPower) and leaves every
\* member of the regulator as it was; a recompute comes no sooner than 5 s after
\* the one before
C10_ThrottledCallChangesNothing ==
    [][ tick'.op = "calculateSurplusPower" =>
          /\ (now - sp.lastCalcMillis < 5000) =>
                 /\ sp' = sp
                 /\ returned' = Max(sp.surplusPower, tick'.requestedPower)
          /\ sp'.lastCalcMillis # sp.lastCalcMillis => now - sp.lastCalcMillis >= 5000
      ]_vars

\* a throttled call that follows a recompute and returns the surplus of that
\* recompute, above requestedPower
C10_Witness ==
    /\ SurplusCall
    /\ tick.path = "throttled"
    /\ sp.lastCalcMillis > 0 /\ now = sp.lastCalcMillis
    /\ sp.surplusState = "REDUCE_POWER"
    /\ returned = sp.surplusPower /\ returned > tick.requestedPower

----------------------------------------------------------------------------
(* Properties of the Surplus Regulator with Stage I, checked under SpecI *)

\* the call that leads to the primed state is a recompute: a call of
\* calculateSurplusPower 5 s or more after the last one
Recompute ==
    /\ tick'.op = "calculateSurplusPower"
    /\ now - sp.lastCalcMillis >= 5000

\* the stage the recompute that leads to the primed state is about to run
RunsStageI ==
    /\ Recompute /\ tick'.env.mode = <<3>>
    /\ sp.stageIEnabled /\ ~sp.stageITempOff
RunsStageII ==
    /\ Recompute /\ tick'.env.mode \in {<<4>>, <<5>>}
    /\ ~RunsStageI
    /\ sp.stageIIEnabled /\ ~sp.stageIITempOff

\* the SoC the recompute finds: valid, and less than 60 s old
SoCAvailable(b) == b.enabled /\ b.socValid /\ b.socAgeSeconds < 60

\* a reading the recompute needs is missing: the operating mode; in Stage II a
\* set-point or the battery voltage; in Stage I the SoC, or the panel power once
\* the SoC lets Stage I run
ReadingMissing ==
    \/ Recompute /\ tick'.env.mode = <<>>
    \/ /\ RunsStageII
       /\ \/ tick'.env.absorptionVoltage = <<>>
          \/ tick'.env.floatVoltage = <<>>
          \/ tick'.env.batteryVoltage = <<>>
    \/ /\ RunsStageI
       /\ \/ ~SoCAvailable(tick'.env.battery)
          \/ /\ tick'.env.solarPower = -1
             /\ tick'.env.battery.soc > sp.startSoC - 20
             /\ (tick'.env.battery.soc >= sp.startSoC \/ sp.surplusState # "IDLE")

\* C11: a recompute that misses a required reading returns requestedPower,
\* adds exactly one to the error counter and leaves the state tag and the
\* surplus power as they were
C11_MissingReadingAbortsTick ==
    [][ ReadingMissing =>
          /\ returned' = tick'.requestedPower
          /\ sp'.errorCounter = sp.errorCounter + 1
          /\ sp'.surplusState = sp.surplusState
          /\ sp'.surplusPower = sp.surplusPower ]_vars

\* a Stage I recompute without panel power while the regulator delivers bulk
\* surplus
C11_Witness ==
    /\ tick.op = "calculateSurplusPower" /\ tick.env.mode = <<3>>
    /\ tick.env.solarPower = -1 /\ tick.env.battery.soc >= sp.startSoC
    /\ sp.surplusState = "BULK_POWER" /\ sp.surplusPower > 0
    /\ sp.errorCounter = 1 /\ returned = tick.requestedPower

----------------------------------------------------------------------------
(* Properties of the runtime switches, checked under SpecS *)

\* the state tags of a running Stage I and of a running Stage II regulation
StageIStates == {"BULK_POWER"}
StageIIStates == {"TRY_MORE", "REDUCE_POWER", "IN_TARGET", "MAXIMUM_POWER",
                  "KEEP_LAST_POWER"}

\* the switch operation that leads to the primed state
Switched(onoff) == tick'.op = "switchSurplusOnOff" /\ tick'.onoff = onoff

\* an OFF switch disables its stage and returns false
SwitchOffDisables ==
    /\ Switched("STAGE_I_OFF") => sp'.stageITempOff /\ returned' = FALSE
    /\ Switched("STAGE_II_OFF") => sp'.stageIITempOff /\ returned' = FALSE

\* an OFF switch zeroes the surplus and resets the state of its own stage
SwitchOffResetsOwnStage ==
    /\ Switched("STAGE_I_OFF") /\ sp.surplusState \notin StageIIStates
          => sp'.surplusPower = 0 /\ sp'.surplusState = "IDLE"
    /\ Switched("STAGE_II_OFF") /\ sp.surplusState \notin StageIStates
          => sp'.surplusPower = 0 /\ sp'.surplusState = "IDLE"

\* an OFF switch leaves the running regulation of the other stage alone
SwitchOffSparesOtherStage ==
    /\ Switched("STAGE_I_OFF") /\ sp.surplusState \in StageIIStates
          => sp'.surplusPower = sp.surplusPower /\ sp'.surplusState = sp.surplusState
    /\ Switched("STAGE_II_OFF") /\ sp.surplusState \in StageIStates
          => sp'.surplusPower = sp.surplusPower /\ sp'.surplusState = sp.surplusState

\* a recompute does not run the calculation of a stage that is switched off
SwitchedOffStageNotRun ==
    /\ Recompute /\ tick'.env.mode = <<3>> /\ sp.stageITempOff
          => tick'.path \notin {"I", "I-idle", "I-no-soc", "I-no-solar"}
    /\ Recompute /\ tick'.env.mode \in {<<4>>, <<5>>} /\ sp.stageIITempOff
          => /\ tick'.path = "none"
             /\ sp'.surplusState = "IDLE" /\ sp'.surplusPower = 0
             /\ sp'.avgMPPTVoltage = sp.avgMPPTVoltage
             /\ returned' = tick'.requestedPower

\* only the ON switch of a stage switches it on again
OnlyOnSwitchEnables ==
    /\ sp.stageITempOff /\ ~sp'.stageITempOff => Switched("STAGE_I_ON")
    /\ sp.stageIITempOff /\ ~sp'.stageIITempOff => Switched("STAGE_II_ON")

\* C12: STAGE_I_OFF and STAGE_II_OFF disable their stage, zero its surplus,
\* reset its state to IDLE and return false; a stage that is off is not run by
\* any recompute until its ON switch; and switching one stage off leaves the
\* surplus and the state of the other stage's running regulation alone
C12_SwitchOffOnlyItsStage ==
    [][ /\ SwitchOffDisables
        /\ SwitchOffResetsOwnStage
        /\ SwitchOffSparesOtherStage
        /\ SwitchedOffStageNotRun
        /\ OnlyOnSwitchEnables ]_vars

\* Stage II has been switched off during a search and a recompute in absorption
\* mode has not run it
C12_Witness ==
    /\ tick.op = "calculateSurplusPower" /\ tick.env.mode = <<4>>
    /\ tick.path = "none" /\ sp.stageIITempOff
    /\ sp.lastAddPower > 0 /\ sp.surplusState = "IDLE"

----------------------------------------------------------------------------
(* Properties of the Stage II search, checked under SpecS *)

\* the recompute that leads to the primed state runs Stage II with all its
\* readings
StageIIStep ==
    /\ RunsStageII
    /\ tick'.env.absorptionVoltage # <<>> /\ tick'.env.floatVoltage # <<>>
    /\ tick'.env.batteryVoltage # <<>>

\* the target of that recompute, in mV: the set-point of the mode less 0.1 V
TargetOf(env) ==
    (IF env.mode = <<4>> THEN env.absorptionVoltage[1] ELSE env.floatVoltage[1]) - 100

\* a Stage II recompute that starts in TRY_MORE with the battery voltage below
\* the target
TryMoreBelowTarget ==
    /\ StageIIStep
    /\ sp.surplusState = "TRY_MORE"
    /\ tick'.env.batteryVoltage[1] < TargetOf(tick'.env)

\* C13 as stated: a Stage II recompute that starts in TRY_MORE with the battery
\* voltage below the target ends in REDUCE_POWER with the surplus power
\* decreased by exactly stepSize, whatever the surplus and requestedPower
C13_TryMoreBelowTargetReducesByStep ==
    [][ TryMoreBelowTarget =>
          /\ sp'.surplusState = "REDUCE_POWER"
          /\ sp'.surplusPower = sp.surplusPower - sp.powerStepSize ]_vars

\* C13: a Stage II recompute that starts in TRY_MORE with the battery voltage
\* below the target lowers the surplus power by stepSize, but not below 0, and
\* ends in REDUCE_POWER, or in KEEP_LAST_POWER when requestedPower is above the
\* lowered surplus
C13_TryMoreBelowTargetReducesFloored ==
    [][ TryMoreBelowTarget =>
          /\ sp'.surplusPower = Max(sp.surplusPower - sp.powerStepSize, 0)
          /\ sp'.surplusState = IF tick'.requestedPower > sp'.surplusPower
                                 THEN "KEEP_LAST_POWER" ELSE "REDUCE_POWER" ]_vars

\* a recompute below the target that follows an increase of the search and has
\* taken one step off the surplus
C13_Witness ==
    /\ tick.op = "calculateSurplusPower" /\ tick.path = "II"
    /\ tick.env.batteryVoltage # <<>>
    /\ tick.env.batteryVoltage[1] < TargetOf(tick.env)
    /\ sp.surplusState = "REDUCE_POWER"
    /\ sp.lastAddPower = -sp.powerStepSize /\ sp.qualityCounter = 1
    /\ sp.overruleCounter = 0
    /\ sp.surplusPower = sp.powerStepSize

\* the battery current the recompute finds is fresh, valid and negative
Discharges(env) ==
    /\ env.battery.enabled /\ env.battery.currentValid
    /\ env.battery.ageSeconds < 5 /\ env.battery.chargeCurrent < 0

\* the battery voltage of the recompute is at or above its target
AtTarget(env) == env.batteryVoltage[1] >= TargetOf(env)

\* the average of the last five battery voltages, the one of the recompute
\* included, is at or above its target
SmoothedAtTarget == AverageAtLeast(sp'.avgMPPTVoltage, TargetOf(tick'.env))

\* the recompute changes the surplus by add, within 0 and the upper limit, and
\* ends in the state st: in MAXIMUM_POWER instead when the upper limit cuts the
\* surplus, and in KEEP_LAST_POWER when requestedPower is above the surplus
Lands(add, st) ==
    LET power == Min(Max(sp.surplusPower + add, 0), sp.surplusUpperPowerLimit) IN
    /\ sp'.surplusPower = power
    /\ sp'.surplusState = IF tick'.requestedPower > power THEN "KEEP_LAST_POWER"
                           ELSE IF sp.surplusPower + add > sp.surplusUpperPowerLimit
                           THEN "MAXIMUM_POWER"
                           ELSE st

\* the recompute changes the surplus by exactly add and ends in the state st
LandsExactly(add, st) ==
    /\ sp'.surplusPower = sp.surplusPower + add
    /\ sp'.surplusState = st

\* a recompute of Stage II that starts in the state st
StageIIStepFrom(st) == StageIIStep /\ sp.surplusState = st

\* C21 as stated: in TRY_MORE the smoothed battery voltage decides: at or above
\* the target the surplus is raised by 2 x stepSize and the state stays
\* TRY_MORE, unless the battery current overrules the increase; below it
\* stepSize is subtracted and the state becomes REDUCE_POWER; the surplus
\* within 0 and the upper limit, KEEP_LAST_POWER when requestedPower is above it
C21_TryMoreDecidesOnSmoothedVoltage ==
    [][ StageIIStepFrom("TRY_MORE") =>
          IF SmoothedAtTarget
          THEN \/ Lands(2 * sp.powerStepSize, "TRY_MORE")
               \/ Discharges(tick'.env) /\ Lands(-sp.powerStepSize, "REDUCE_POWER")
          ELSE Lands(-sp.powerStepSize, "REDUCE_POWER") ]_vars

\* C21: in TRY_MORE the battery voltage of the recompute decides, not its
\* average: at or above the target, and unless a discharging battery
\* overrules a surplus above 0, the surplus is raised by 2 x stepSize up to the
\* upper limit and the state stays TRY_MORE (MAXIMUM_POWER when the limit cuts
\* it); otherwise stepSize is subtracted, not below 0, and the state becomes
\* REDUCE_POWER; in both cases KEEP_LAST_POWER when requestedPower is above
\* the surplus.
C21_TryMoreDecidesOnActualVoltage ==
    [][ StageIIStepFrom("TRY_MORE") =>
          IF AtTarget(tick'.env) /\ ~(sp.surplusPower > 0 /\ Discharges(tick'.env))
          THEN Lands(2 * sp.powerStepSize, "TRY_MORE")
          ELSE Lands(-sp.powerStepSize, "REDUCE_POWER") ]_vars

\* a recompute in TRY_MORE below the target has reduced the surplus while the
\* average of the voltages was still above the target
C21_Witness ==
    /\ tick.op = "calculateSurplusPower" /\ tick.path = "II"
    /\ tick.env.batteryVoltage # <<>> /\ ~AtTarget(tick.env)
    /\ AverageAtLeast(sp.avgMPPTVoltage, TargetOf(tick.env))
    /\ sp.surplusState = "REDUCE_POWER"
    /\ sp.lastAddPower = -sp.powerStepSize
    /\ sp.qualityCounter = 1 /\ sp.overruleCounter = 0

----------------------------------------------------------------------------
(* Properties of the search at its target, checked under SpecT *)

\* a recompute of Stage II that starts in IN_TARGET or MAXIMUM_POWER with the
\* voltage of the tick or the average of the last five at or above the target
HoldsTarget ==
    /\ StageIIStep
    /\ sp.surplusState \in {"IN_TARGET", "MAXIMUM_POWER"}
    /\ AtTarget(tick'.env) \/ SmoothedAtTarget

\* the recompute raises the surplus by stepSize and ends in TRY_MORE
Probes == LandsExactly(sp.powerStepSize, "TRY_MORE")

\* from a recompute to the next the regulator is in IN_TARGET only with the
\* time of its entry in _lastInTargetMillis, and never leaves MAXIMUM_POWER
\* for TRY_MORE
DwellFromEntry ==
    /\ sp'.surplusState = "IN_TARGET" /\ sp.surplusState # "IN_TARGET"
          => sp'.lastInTargetMillis = now
    /\ sp'.surplusState = "IN_TARGET" /\ sp.surplusState = "IN_TARGET"
          => sp'.lastInTargetMillis = sp.lastInTargetMillis
    /\ sp.surplusState = "MAXIMUM_POWER" => sp'.surplusState # "TRY_MORE"

\* C22 as stated: in IN_TARGET or MAXIMUM_POWER with the voltage or its average
\* at or above the target the surplus is held; it is raised by stepSize, with
\* TRY_MORE, only after a dwell of at least 60 s, where a discharging battery
\* may overrule that raise
C22_HoldAtTargetProbeAfterDwell ==
    [][ /\ DwellFromEntry
        /\ HoldsTarget =>
              \/ sp'.surplusPower = sp.surplusPower
              \/ /\ now - sp.lastInTargetMillis >= 60000
                 /\ \/ Probes
                    \/ Discharges(tick'.env) /\ Lands(-sp.powerStepSize, "REDUCE_POWER")
      ]_vars

\* C22: in IN_TARGET or MAXIMUM_POWER with the voltage or its average at or
\* above the target, a fresh negative battery current lowers a surplus above 0
\* by stepSize, with REDUCE_POWER; otherwise the surplus is held, and raised by
\* stepSize up to the upper limit, with TRY_MORE, only when more than 60 s have
\* passed since IN_TARGET was entered; MAXIMUM_POWER is never left for
\* TRY_MORE; KEEP_LAST_POWER when requestedPower is above the surplus.
C22_HoldAtTargetUnlessDischarging ==
    [][ /\ DwellFromEntry
        /\ HoldsTarget =>
              IF sp.surplusPower > 0 /\ Discharges(tick'.env)
              THEN Lands(-sp.powerStepSize, "REDUCE_POWER")
              ELSE IF now - sp.lastInTargetMillis > 60000
              THEN Lands(sp.powerStepSize, "TRY_MORE")
              ELSE Lands(0, sp.surplusState)
      ]_vars

\* the search has held its surplus in IN_TARGET 60 s after it reached the
\* target from REDUCE_POWER
C22_Witness ==
    /\ tick.op = "calculateSurplusPower" /\ tick.path = "II"
    /\ sp.surplusState = "IN_TARGET"
    /\ sp.lastInTargetMillis > 0 /\ now - sp.lastInTargetMillis = 60000
    /\ sp.lastCalcMillis = now
    /\ sp.surplusPower > 0 /\ sp.lastAddPower = 0

\* the search has left IN_TARGET for TRY_MORE 65 s after it reached the target
C22_Probed ==
    /\ tick.op = "calculateSurplusPower" /\ tick.path = "II"
    /\ sp.surplusState = "TRY_MORE" /\ sp.lastAddPower = sp.powerStepSize
    /\ sp.lastInTargetMillis > 0 /\ now - sp.lastInTargetMillis = 65000
    /\ sp.lastCalcMillis = now

----------------------------------------------------------------------------
(* Properties of KEEP_LAST_POWER and REDUCE_POWER, checked under SpecS *)

\* a Stage II recompute ends in KEEP_LAST_POWER exactly when requestedPower is
\* above the surplus it has computed
KeepLastExactlyWhenAbove ==
    StageIIStep =>
       (sp'.surplusState = "KEEP_LAST_POWER" <=> tick'.requestedPower > sp'.surplusPower)

\* C25 as stated: a Stage II recompute ends in KEEP_LAST_POWER exactly when
\* requestedPower is above the computed surplus; the next recompute, from
\* KEEP_LAST_POWER, goes on in TRY_MORE when the voltage is at or above the
\* target, where the battery current may overrule the increase, and otherwise
\* moves to REDUCE_POWER with the surplus as it was
C25_KeepLastThenResumeOrReduce ==
    [][ /\ KeepLastExactlyWhenAbove
        /\ ( StageIIStepFrom("KEEP_LAST_POWER") /\ sp'.surplusState # "KEEP_LAST_POWER" ) =>
              IF AtTarget(tick'.env)
              THEN \/ sp'.surplusState \in {"TRY_MORE", "MAXIMUM_POWER"}
                   \/ Discharges(tick'.env) /\ Lands(-sp.powerStepSize, "REDUCE_POWER")
              ELSE LandsExactly(0, "REDUCE_POWER")
      ]_vars

\* C25: a Stage II recompute ends in KEEP_LAST_POWER exactly when
\* requestedPower is above the computed surplus; the next recompute, from
\* KEEP_LAST_POWER, takes one step off a surplus above 0 when a fresh negative
\* battery current overrules, with REDUCE_POWER; otherwise it adds stepSize up
\* to the upper limit and goes on in TRY_MORE when the voltage is at or above
\* the target, and moves to REDUCE_POWER with the surplus as it was when the
\* voltage is below.
C25_KeepLastThenResumeReduceOrOverrule ==
    [][ /\ KeepLastExactlyWhenAbove
        /\ StageIIStepFrom("KEEP_LAST_POWER") =>
              IF sp.surplusPower > 0 /\ Discharges(tick'.env)
              THEN Lands(-sp.powerStepSize, "REDUCE_POWER")
              ELSE IF AtTarget(tick'.env)
              THEN Lands(sp.powerStepSize, "TRY_MORE")
              ELSE Lands(0, "REDUCE_POWER")
      ]_vars

\* the search was in KEEP_LAST_POWER and, with requestedPower back at 0 and the
\* voltage below the target, has moved to REDUCE_POWER with its surplus kept
C25_Witness ==
    /\ tick.op = "calculateSurplusPower" /\ tick.path = "II"
    /\ tick.requestedPower = 0 /\ ~AtTarget(tick.env)
    /\ sp.surplusState = "REDUCE_POWER"
    /\ sp.lastAddPower = 0 /\ sp.overruleCounter = 0
    /\ sp.surplusPower = 2 * sp.powerStepSize

\* C26 as stated: in REDUCE_POWER with the voltage at or above the target the
\* time is recorded, the surplus left as it is and the state becomes
\* IN_TARGET; with the voltage below the target stepSize is subtracted, not
\* below 0, and the state stays REDUCE_POWER; KEEP_LAST_POWER when
\* requestedPower is above the surplus
C26_ReducePowerUntilTarget ==
    [][ StageIIStepFrom("REDUCE_POWER") =>
          IF AtTarget(tick'.env)
          THEN /\ sp'.lastInTargetMillis = now
               /\ Lands(0, "IN_TARGET")
          ELSE Lands(-sp.powerStepSize, "REDUCE_POWER") ]_vars

\* C26: in REDUCE_POWER with the voltage at or above the target the time is
\* recorded and, unless a fresh negative battery current takes one more step
\* off a surplus above 0 and keeps REDUCE_POWER, the surplus is left as it is
\* and the state becomes IN_TARGET; with the voltage below the target the
\* time is left alone, stepSize is subtracted, not below 0, and the state
\* stays REDUCE_POWER; KEEP_LAST_POWER when requestedPower is above the
\* surplus.
C26_ReducePowerUntilTargetOrOverrule ==
    [][ StageIIStepFrom("REDUCE_POWER") =>
          IF AtTarget(tick'.env)
          THEN /\ sp'.lastInTargetMillis = now
               /\ IF sp.surplusPower > 0 /\ Discharges(tick'.env)
                  THEN Lands(-sp.powerStepSize, "REDUCE_POWER")
                  ELSE Lands(0, "IN_TARGET")
          ELSE /\ sp'.lastInTargetMillis = sp.lastInTargetMillis
               /\ Lands(-sp.powerStepSize, "REDUCE_POWER") ]_vars

\* the search has come down to the target from above: the time of the hit is
\* recorded and the surplus kept in IN_TARGET
C26_Witness ==
    /\ tick.op = "calculateSurplusPower" /\ tick.path = "II"
    /\ AtTarget(tick.env)
    /\ sp.surplusState = "IN_TARGET"
    /\ sp.lastInTargetMillis = now /\ now > 0
    /\ sp.lastAddPower = 0 /\ sp.surplusPower = sp.powerStepSize

----------------------------------------------------------------------------
(* Properties of the battery current overrule, checked under SpecT *)

\* the adjustment the search is about to apply on the recompute, before the
\* battery current is looked at
Pending ==
    LET step == sp.powerStepSize
        st == sp.surplusState
        at == AtTarget(tick'.env)
    IN  CASE st \in {"IDLE", "BULK_POWER"} -> 0
          [] st = "KEEP_LAST_POWER" -> IF at THEN step ELSE 0
          [] st = "TRY_MORE" -> IF at THEN 2 * step ELSE -step
          [] st = "REDUCE_POWER" -> IF at THEN 0 ELSE -step
          [] st \in {"IN_TARGET", "MAXIMUM_POWER"} ->
               IF at \/ SmoothedAtTarget
               THEN (IF now - sp.lastInTargetMillis > 60000 THEN step ELSE 0)
               ELSE -step

\* the surplus the adjustment applies to: the seed when the search starts
Base ==
    IF sp.surplusState \in {"IDLE", "BULK_POWER"}
    THEN Max(sp.surplusPower, tick'.requestedPower) ELSE sp.surplusPower

\* the overrule counter before the adjustment: 0 when the search starts
CounterBase ==
    IF sp.surplusState \in {"IDLE", "BULK_POWER"} THEN 0 ELSE sp.overruleCounter

\* the recompute has overruled: one step off the surplus, not below 0, the
\* state REDUCE_POWER (KEEP_LAST_POWER when requestedPower is above the
\* surplus) and one more overrule counted
Overruled ==
    LET power == Max(Base - sp.powerStepSize, 0) IN
    /\ sp'.surplusPower = power
    /\ sp'.surplusState = IF tick'.requestedPower > power
                           THEN "KEEP_LAST_POWER" ELSE "REDUCE_POWER"
    /\ sp'.overruleCounter = CounterBase + 1

\* C23 as stated: a fresh negative battery current overrules on every tick on
\* which an increase was about to be applied, and on no other tick
C23_OverruleExactlyOnPendingIncrease ==
    [][ StageIIStep =>
          IF Pending > 0 /\ Discharges(tick'.env)
          THEN Overruled
          ELSE sp'.overruleCounter = CounterBase ]_vars

\* C23: a fresh (less than 5 s old) valid negative battery current overrules
\* on every tick on which the search was about to raise or to hold a surplus
\* above 0: stepSize is subtracted instead, the state becomes REDUCE_POWER and
\* the overrule counter increases by one; on no other tick is an overrule
\* counted.
C23_OverruleOnPendingIncreaseOrHold ==
    [][ StageIIStep =>
          IF Pending >= 0 /\ Base > 0 /\ Discharges(tick'.env)
          THEN Overruled
          ELSE sp'.overruleCounter = CounterBase ]_vars

\* an increase of a search in TRY_MORE with the voltage at the target was
\* overruled by the battery current
C23_Witness ==
    /\ tick.op = "calculateSurplusPower" /\ tick.path = "II"
    /\ Discharges(tick.env) /\ AtTarget(tick.env)
    /\ sp.surplusState = "REDUCE_POWER"
    /\ sp.overruleCounter = 1
    /\ sp.lastAddPower = -sp.powerStepSize /\ sp.qualityCounter = 1
    /\ sp.surplusPower > 0

----------------------------------------------------------------------------
(* Properties of the regulation quality, checked under SpecT *)

\* the adjustment the recompute applies: the pending one, or -stepSize when
\* the battery current overrules
Applied ==
    IF Pending >= 0 /\ Base > 0 /\ Discharges(tick'.env)
    THEN -sp.powerStepSize ELSE Pending

\* two adjustments of opposite sign
Opposite(a, b) == (a < 0 /\ b > 0) \/ (a > 0 /\ b < 0)

\* the recompute finds the search at its target: a cycle is complete
AtTargetState ==
    /\ sp.surplusState \in {"IN_TARGET", "MAXIMUM_POWER"}
    /\ AtTarget(tick'.env) \/ SmoothedAtTarget

\* the reversals counted so far in the search that the recompute continues
CountedSoFar ==
    IF sp.surplusState \in {"IDLE", "BULK_POWER"} \/ AtTargetState
    THEN 0 ELSE sp.qualityCounter

\* a recompute that does not end in KEEP_LAST_POWER remembers its adjustment
\* and counts it when it reverses the one remembered
ReversalsCounted ==
    ( StageIIStep /\ sp'.surplusState # "KEEP_LAST_POWER" ) =>
       /\ sp'.lastAddPower = Applied
       /\ sp'.qualityCounter =
             CountedSoFar + (IF Opposite(sp.lastAddPower, Applied) THEN 1 ELSE 0)

\* the first recompute after the one that reached IN_TARGET
FirstAfterHit ==
    /\ StageIIStepFrom("IN_TARGET")
    /\ sp.lastInTargetMillis = sp.lastCalcMillis

\* C27 as stated: the quality counter counts every reversal between an
\* adjustment and the one before, from + to - and from - to +, and every
\* search that has reached its target adds exactly one sample, its count of
\* reversals, to the average over the last 20
C27_ReversalsCountedOneSamplePerCycle ==
    [][ /\ ReversalsCounted
        /\ ( FirstAfterHit /\ AtTargetState ) =>
              sp'.qualityAVG = addNumber(sp.qualityAVG, sp.qualityCounter, 20)
      ]_vars

\* C27: the quality counter counts every reversal between an adjustment and
\* the one before, from + to - and from - to +, on the recomputes that do not
\* end in KEEP_LAST_POWER; a recompute that finds the search at its target
\* adds the count to the average over the last 20 when it is not 0, so that a
\* search with reversals adds exactly one sample and a search without adds
\* none; no other recompute adds a sample, and the start of a search from
\* IDLE or BULK_POWER empties the average.
C27_ReversalsCountedOneSampleUnlessNone ==
    [][ /\ ReversalsCounted
        /\ StageIIStep =>
              sp'.qualityAVG =
                 IF sp.surplusState \in {"IDLE", "BULK_POWER"} THEN <<>>
                 ELSE IF AtTargetState /\ sp.qualityCounter # 0
                 THEN addNumber(sp.qualityAVG, sp.qualityCounter, 20)
                 ELSE sp.qualityAVG
        /\ ( FirstAfterHit /\ AtTargetState ) =>
              /\ sp'.qualityCounter = IF Opposite(sp.lastAddPower, Applied) THEN 1 ELSE 0
              /\ Len(sp'.qualityAVG) =
                    Len(sp.qualityAVG) + (IF sp.qualityCounter # 0 THEN 1 ELSE 0)
      ]_vars

\* a search went up, came down to its target with one reversal and has added
\* the sample 1 on the recompute after
C27_Witness ==
    /\ tick.op = "calculateSurplusPower" /\ tick.path = "II"
    /\ sp.surplusState = "IN_TARGET"
    /\ sp.lastInTargetMillis > 0 /\ sp.lastInTargetMillis < sp.lastCalcMillis
    /\ sp.lastCalcMillis = now
    /\ sp.qualityAVG = <<1>> /\ sp.qualityCounter = 0
    /\ sp.overruleCounter = 0

\* a search came down to its target without a reversal and has added no
\* sample on the recompute after
C27_NoSample ==
    /\ tick.op = "calculateSurplusPower" /\ tick.path = "II"
    /\ sp.surplusState = "IN_TARGET"
    /\ sp.lastInTargetMillis > 0 /\ sp.lastInTargetMillis < sp.lastCalcMillis
    /\ sp.lastCalcMillis = now
    /\ sp.qualityAVG = <<>> /\ sp.qualityCounter = 0

----------------------------------------------------------------------------
(* Properties of the quality counter, checked under SpecI *)

----------------------------------------------------------------------------
(* Properties of the start of a search, checked under SpecI *)

C24_StartedFromBulk ==
    /\ tick.op = "calculateSurplusPower" /\ tick.path = "II"
    /\ sp.solarPower > 0
    /\ sp.surplusState = "TRY_MORE" /\ sp.lastAddPower = 0
    /\ sp.overruleCounter = 0 /\ sp.qualityCounter = 0
    /\ sp.surplusPower = tick.requestedPower /\ sp.surplusPower > 0

----------------------------------------------------------------------------
(* Properties of the battery reserve, checked under SpecI *)

\* the minutes to the deadline a recompute finds: the minutes to sunset, not
\* below 0, less the lead time
MinutesToDeadline(sun, leadTime) ==
    (IF sun.sunsetMinutes > sun.actMinutes
     THEN sun.sunsetMinutes - sun.actMinutes ELSE 0) - leadTime

\* capacity * (0.998 - SoC/100) / minutesToDeadline * 60 * (1 + safety/100) in
\* W, truncated to an integer and not below 0; the SoC in tenths of a percent
ReserveFormula(capacity, soc, minutes, safety) ==
    LET n == capacity * (998 - soc) * 6 * (100 + safety)
        d == 10000 * minutes
    IN  IF n <= 0 THEN 0 ELSE n \div d

\* the recompute that leads to the primed state computes the reserve, with time
\* left to the deadline
ReserveComputed ==
    /\ RunsStageI
    /\ sp'.lastReserveCalcMillis = now
    /\ tick'.env.sun.ok
    /\ MinutesToDeadline(tick'.env.sun, sp.durationAbsorptionToSunset) > 0

\* C15: the battery reserve that Stage I computes is capacity * (0.998 -
\* SoC/100) / minutesToDeadline * 60 * (1 + safety), not below 0, the minutes to
\* the deadline being the minutes to sunset less the lead time; and for SoC 50 %,
\* 2500 Wh, 30 % and 120 minutes the reserve computed is about 810 W
C15_ReserveFormulaAndExample ==
    [][ /\ ReserveComputed =>
              sp'.batteryReserve =
                 ReserveFormula(sp.batteryCapacity, tick'.env.battery.soc,
                                MinutesToDeadline(tick'.env.sun,
                                                  sp.durationAbsorptionToSunset),
                                sp.batterySafetyPercent)
        /\ Max(ReservePower(2500, 500, 120, 30), 0) \in 809..810 ]_vars

\* a reserve computed for SoC 90 %, 2500 Wh, 30 % and 120 minutes to the
\* deadline
C15_Witness ==
    /\ tick.op = "calculateSurplusPower" /\ tick.path = "I"
    /\ sp.lastReserveCalcMillis = now /\ now > 0
    /\ tick.env.battery.soc = 900
    /\ sp.batteryCapacity = 2500 /\ sp.batterySafetyPercent = 30
    /\ sp.durationNowToAbsorption = 120
    /\ sp.batteryReserve = 159

----------------------------------------------------------------------------
(* Properties of the Stage I surplus, checked under SpecI *)

\* (solarPower * 0.97 - reserve) * 0.94 in W, truncated to an integer and
\* clamped to [0, upperLimit]
StageISurplusLaw(solarPower, reserve, upperLimit) ==
    LET x == (solarPower * 97 - reserve * 100) * 94
    IN  IF x <= 0 THEN 0
        ELSE IF x \div 10000 > upperLimit THEN upperLimit ELSE x \div 10000

\* a Stage I recompute that gets as far as the surplus
StageISurplusComputed == RunsStageI /\ tick'.path = "I"

\* the reserve after the tick is one computed on that tick from the SoC and the
\* time to the deadline that the tick reads
ReserveFromCurrentReadings ==
    LET minutes == MinutesToDeadline(tick'.env.sun, sp.durationAbsorptionToSunset)
    IN  /\ sp'.lastReserveCalcMillis = now
        /\ sp'.batteryReserve =
              IF tick'.env.sun.ok /\ minutes > 0
              THEN ReserveFormula(sp.batteryCapacity, tick'.env.battery.soc, minutes,
                                  sp.batterySafetyPercent)
              ELSE RESERVE_POWER_MAX

C30_StageISurplusFromReserveHeld ==
    [][ StageISurplusComputed =>
          /\ sp'.surplusPower =
                StageISurplusLaw(tick'.env.solarPower, sp'.batteryReserve,
                                 sp.surplusUpperPowerLimit)
          /\ (sp.surplusState = "IDLE" /\ now > 300000) => ReserveFromCurrentReadings
          /\ (sp.surplusState = "IDLE" /\ now <= 300000) =>
                /\ sp'.batteryReserve = RESERVE_POWER_MAX
                /\ sp'.lastReserveCalcMillis = 0
                /\ sp'.surplusPower = 0 ]_vars

C30_Computed ==
    /\ tick.op = "calculateSurplusPower" /\ tick.path = "I"
    /\ tick.env.solarPower = 400
    /\ sp.lastReserveCalcMillis = now
    /\ sp.batteryReserve = 159
    /\ sp.surplusPower = 100

----------------------------------------------------------------------------
(* Properties of the reserve period, checked under SpecR *)

\* the recompute that leads to the primed state computes the battery reserve
ReserveRecomputed ==
    /\ RunsStageI /\ tick'.path = "I"
    /\ sp'.lastReserveCalcMillis = now

----------------------------------------------------------------------------
(* Properties of the step size, checked under SpecU *)

\* the step size of the formula, in unbounded integers
StepSizeLaw == Max(tick.upperLimit \div 20, tick.hysteresis) + 1

\* C28: after updateSettings the step size is max(upperLimit / 20,
\* hysteresis) + 1 in integer division, so it is at least 1 and strictly
\* greater than the hysteresis, for every upper limit and every hysteresis
\* of the configuration
C28_StepSizeAboveHysteresis ==
    tick.op = "updateSettings" =>
        /\ sp.powerStepSize = StepSizeLaw
        /\ sp.powerStepSize >= 1
        /\ sp.powerStepSize > tick.hysteresis

\* the law holds wherever the result fits the int16_t step size
C28_StepSizeAboveHysteresisWithinInt16 ==
    (tick.op = "updateSettings" /\ StepSizeLaw < 32768) =>
        /\ sp.powerStepSize = StepSizeLaw
        /\ sp.powerStepSize >= 1
        /\ sp.powerStepSize > tick.hysteresis

\* the settings where the step size leaves its type
C28_Witness ==
    /\ tick.op = "updateSettings"
    /\ tick.hysteresis = 32767
    /\ sp.powerStepSize = -32768

\* the settings as shipped in the model: upper limit 100 W, hysteresis 39 W
C28_Shipped ==
    /\ tick.op = "updateSettings"
    /\ tick.upperLimit = 100 /\ tick.hysteresis = 39
    /\ sp.powerStepSize = 40

----------------------------------------------------------------------------
(* Properties of the inactive regulator, checked under SpecS *)

\* Stage I, Stage II: enabled and not switched off temporarily
StageIActive == sp.stageIEnabled /\ ~sp.stageITempOff
StageIIActive == sp.stageIIEnabled /\ ~sp.stageIITempOff

\* the recompute that leads to the primed state reads an operating mode that no
\* active stage matches
NoStageMatches ==
    /\ Recompute
    /\ tick'.env.mode # <<>>
    /\ ~(StageIActive /\ tick'.env.mode = <<3>>)
    /\ ~(StageIIActive /\ tick'.env.mode \in {<<4>>, <<5>>})

\* C32: a recompute whose operating mode is available but matches no active
\* stage sets the state IDLE and the surplus 0 and returns exactly
\* requestedPower; and while both stages are inactive every call, throttled or
\* not, returns requestedPower
C32_NoMatchingStageGoesIdle ==
    [][ /\ NoStageMatches =>
              /\ sp'.surplusState = "IDLE"
              /\ sp'.surplusPower = 0
              /\ returned' = tick'.requestedPower
        /\ (tick'.op = "calculateSurplusPower" /\ ~StageIActive /\ ~StageIIActive) =>
              returned' = tick'.requestedPower ]_vars

\* a recompute in absorption mode with Stage II switched off, after a search
\* ran: IDLE, surplus 0 and the 50 W requested are returned
C32_Witness ==
    /\ tick.op = "calculateSurplusPower" /\ tick.path = "none"
    /\ tick.env.mode = <<4>> /\ sp.stageIITempOff
    /\ tick.requestedPower = 50 /\ returned = 50
    /\ sp.surplusState = "IDLE" /\ sp.surplusPower = 0
    /\ sp.lastAddPower # 0

\* a throttled call with both stages inactive
C32_ThrottledInactive ==
    /\ tick.op = "calculateSurplusPower" /\ tick.path = "throttled"
    /\ sp.stageIITempOff /\ ~sp.stageIEnabled
    /\ tick.requestedPower = 50 /\ returned = 50
    /\ sp.lastAddPower # 0

----------------------------------------------------------------------------
(* Properties of the publication of the power meter, checked under SpecM *)

\* the call of mqttLoop that leads to the primed state publishes
Publishes == tick'.op = "mqttLoop" /\ tick'.published

\* C33: mqttLoop publishes only while MQTT is connected and the meter data is
\* valid (an update was received less than 30 s ago), and it publishes each
\* received update at most once: with no new gotUpdate since the last
\* publication, further calls of mqttLoop publish nothing
C33_PublishesEachUpdateOnce ==
    [][ Publishes =>
          /\ tick'.connected
          /\ lastUpdate > 0 /\ now - lastUpdate < 30000
          /\ publishes = 0 ]_vars

\* what holds of the code: the conditions of a publication, and an update is
\* published again only when its last publication was in the millisecond of
\* the update
C33_PublishesAgainOnlyAfterSameInstant ==
    [][ Publishes =>
          /\ tick'.connected
          /\ lastUpdate > 0 /\ now - lastUpdate < 30000
          /\ publishes >= 1 => lastMqttPublish = lastUpdate ]_vars

\* an update published twice
C33_Witness ==
    /\ tick.op = "mqttLoop" /\ tick.published
    /\ publishes = 2

\* an update published once, and a later call that publishes nothing
C33_PublishedOnce ==
    /\ tick.op = "mqttLoop" /\ ~tick.published /\ tick.connected
    /\ publishes = 1 /\ isDataValid
    /\ lastMqttPublish > lastUpdate

----------------------------------------------------------------------------
(* Properties of the stored surplus, checked under SpecW *)

\* C34: after every call of calculateSurplusPower or switchSurplusOnOff, with
\* the settings unchanged and an upper limit of at least 0, the stored surplus
\* power is at least 0 and at most the upper limit
C34_StoredSurplusWithinLimits ==
    sp.surplusUpperPowerLimit >= 0 =>
        (0 <= sp.surplusPower /\ sp.surplusPower <= sp.surplusUpperPowerLimit)

\* a Stage II step cut at the upper limit, and a Stage I surplus floored at 0
C34_Witness ==
    /\ tick.op = "calculateSurplusPower"
    /\ \/ /\ tick.path = "II" /\ sp.surplusState = "MAXIMUM_POWER"
          /\ sp.surplusPower = sp.surplusUpperPowerLimit
          /\ sp.lastAddPower = 2 * sp.powerStepSize
       \/ /\ tick.path = "I" /\ sp.surplusPower = 0
          /\ SurplusOf(sp.solarPower, sp.batteryReserve) < 0

\* a Stage I surplus cut at the upper limit
C34_StageILimited ==
    /\ tick.op = "calculateSurplusPower" /\ tick.path = "I"
    /\ sp.surplusPower = sp.surplusUpperPowerLimit
    /\ SurplusOf(sp.solarPower, sp.batteryReserve) > sp.surplusUpperPowerLimit

\* a switch that takes a running surplus back to 0
C34_SwitchedOff ==
    /\ tick.op = "switchSurplusOnOff" /\ tick.onoff = "STAGE_II_OFF"
    /\ sp.surplusPower = 0 /\ sp.lastAddPower > 0

----------------------------------------------------------------------------
(* Properties of MAXIMUM_POWER, checked under SpecT *)

\* C35: whenever the state of the regulator is MAXIMUM_POWER between two
\* calls, the stored surplus power equals the upper limit
C35_MaximumPowerIsUpperLimit ==
    sp.surplusState = "MAXIMUM_POWER" => sp.surplusPower = sp.surplusUpperPowerLimit

\* MAXIMUM_POWER kept by a recompute that holds the surplus, after the one that
\* reached the upper limit
C35_Witness ==
    /\ tick.op = "calculateSurplusPower" /\ tick.path = "II"
    /\ sp.surplusState = "MAXIMUM_POWER"
    /\ sp.lastAddPower = 0
    /\ sp.surplusPower = 100

----------------------------------------------------------------------------
(* Properties of the search in the long run, checked under SpecL *)

\* the step is not a recompute, or it is one whose readings let the search
\* rise: all readings available, the voltage at or above its target, the
\* battery not discharging, Stage II active, requestedPower within the upper
\* limit
RisingStep ==
    (tick'.op = "calculateSurplusPower" /\ tick'.path # "throttled") =>
        /\ tick'.path = "II"
        /\ AtTarget(tick'.env) /\ ~Discharges(tick'.env)
        /\ tick'.requestedPower <= sp.surplusUpperPowerLimit

AtMaximum ==
    sp.surplusState = "MAXIMUM_POWER" /\ sp.surplusPower = sp.surplusUpperPowerLimit

FallingStep(R) ==
    tick'.op = "calculateSurplusPower" =>
        /\ tick'.requestedPower = R
        /\ tick'.path # "throttled" =>
              /\ tick'.path = "II"
              /\ ~AtTarget(tick'.env) /\ ~SmoothedAtTarget

\* the last step was not a call of the regulator, or the call returned its
\* requestedPower
ReturnedRequested ==
    tick.op = "calculateSurplusPower" => returned = tick.requestedPower

----------------------------------------------------------------------------
(* Properties of the stored limit, checked under Spec *)

\* the values of the power-limit commands among the commands q
LimitValuesOf(q) == { q[i].value : i \in { j \in 1..Len(q) : q[j].cmd = "limit" } }

\* C38: the stored last requested limit is the value of the most recent
\* power-limit command sent, and 0 if none was sent since init(): it starts at
\* 0, a step that sends a power-limit command stores the value of that command,
\* and every other step, a start command and an aborted tick included, leaves it
C38_StoredLimitIsLastLimitSent ==
    /\ lastRequestedPowerLimit = 0 /\ sent = <<>>
    /\ [][ IF LimitValuesOf(sent') # {}
           THEN LimitValuesOf(sent') = {lastRequestedPowerLimit'}
           ELSE lastRequestedPowerLimit' = lastRequestedPowerLimit ]_vars

\* a start command sent while a limit above 0 is stored from an earlier stop
C38_Witness ==
    /\ tick.op = "loop" /\ tick.branch = "start"
    /\ sent = <<StartCmd>>
    /\ lastRequestedPowerLimit > 0
    /\ lastRequestedPowerLimit = LowerLimit
    /\ lastCommandSent = now

\* an aborted tick while a limit above 0 is stored
C38_Aborted ==
    /\ tick.op = "loop" /\ tick.branch = "abort"
    /\ sent = <<>>
    /\ lastRequestedPowerLimit > 0 /\ lastCommandSent < now

----------------------------------------------------------------------------
(* Properties of the spacing of the commands, checked under SpecC *)

\* C39: the commands of different limiter ticks are separated by at least the
\* configured interval: only a limiter tick sends, it sends at least the
\* interval after the time recorded for the last command, and that record is
\* the time of the last tick that sent
C39_CommandsAnIntervalApart ==
    [][ /\ sent' # <<>> => /\ tick'.op = "loop"
                           /\ Elapsed(lastCommandSent) >= IntervalMs
                           /\ lastCommandSent' = now
        /\ sent' = <<>> => lastCommandSent' = lastCommandSent ]_vars

\* a start command sent exactly one interval after the earliest possible
\* command, a stop whose lower limit is still stored
C39_Witness ==
    /\ tick.op = "loop" /\ tick.branch = "start" /\ sent = <<StartCmd>>
    /\ lastRequestedPowerLimit > 0
    /\ lastCommandSent = now /\ now = 2 * IntervalMs

\* a tick held back half an interval after a command although more than the
\* interval has passed since the last tick that passed the guard at its start
C39_HeldBack ==
    /\ tick.op = "loop" /\ tick.branch = "idle"
    /\ config.PowerLimiter_Enabled /\ tick.mqttConnected /\ tick.radioIdle
    /\ lastCommandSent > 0
    /\ Elapsed(lastCommandSent) = SpacingStep

----------------------------------------------------------------------------
(* Properties of the regulator as shipped, checked under SpecS *)

\* Stage I is disabled, the stage selection does not choose it for bulk mode,
\* and the state is not BULK_POWER
StageIOutOfReach ==
    /\ ~sp.stageIEnabled
    /\ StageFor(sp, MODE_BULK) # "I"
    /\ sp.surplusState # "BULK_POWER"

\* C40: as shipped, with Stage I disabled and Stage II enabled, no sequence of
\* calculateSurplusPower and switchSurplusOnOff calls, STAGE_I_ON included,
\* runs Stage I or reaches BULK_POWER, and in bulk mode every recompute
\* returns requestedPower with the state IDLE
C40_StageINeverRunsAsShipped ==
    /\ StageIOutOfReach
    /\ [][ /\ StageIOutOfReach'
           /\ tick'.op = "calculateSurplusPower" =>
                 tick'.path \notin {"I", "I-idle", "I-no-soc", "I-no-solar"}
           /\ (Recompute /\ tick'.env.mode = <<MODE_BULK>>) =>
                 /\ tick'.path = "none"
                 /\ returned' = tick'.requestedPower
                 /\ sp'.surplusState = "IDLE" ]_vars

\* a recompute in bulk mode with Stage I not switched off, after Stage II had
\* been switched off: requestedPower returned, the state IDLE
C40_Witness ==
    /\ tick.op = "calculateSurplusPower" /\ tick.path = "none"
    /\ tick.env.mode = <<MODE_BULK>>
    /\ ~sp.stageITempOff /\ sp.stageIITempOff
    /\ tick.requestedPower = 120 /\ returned = 120
    /\ sp.surplusState = "IDLE" /\ sp.surplusPower = 0

\* STAGE_I_ON after Stage II raised the surplus: the switch changes neither
\* the state nor the surplus
C40_SwitchedOn ==
    /\ tick.op = "switchSurplusOnOff" /\ tick.onoff = "STAGE_I_ON"
    /\ ~sp.stageITempOff /\ ~sp.stageIEnabled
    /\ sp.surplusState = "TRY_MORE" /\ sp.surplusPower > 0

----------------------------------------------------------------------------
(* Properties of one invocation, checked under SpecB *)

\* the commands of a limiter tick: none, a start, a stop with the lower limit,
\* or one limit update; never a start with a stop or with a limit
OneLimiterAction ==
    tick'.op = "loop" =>
        \/ sent' = <<>>
        \/ sent' = <<StartCmd>>
        \/ sent' = <<StopCmd, LimitCmd(ToU16(config.PowerLimiter_LowerPowerLimit))>>
        \/ \E v \in 0..(U16 - 1) : sent' = <<LimitCmd(v)>>

\* the number of times the state tag changes along its assignments
Changes(tags) == Cardinality({ i \in 1..(Len(tags) - 1) : tags[i] # tags[i + 1] })

\* the tags of the Stage II recompute that leads to the primed state
TagsOfTick ==
    StateAssignments(sp, tick'.requestedPower, tick'.env.mode[1], tick'.env)

\* a Stage II recompute with all its readings
StageIIRun == RunsStageII /\ tick'.path = "II"

C31_Stopped ==
    /\ tick.op = "loop" /\ tick.branch = "stop"
    /\ sent = <<StopCmd, LimitCmd(50)>>
    /\ sp.lastCalcMillis > 0

----------------------------------------------------------------------------
(* Properties of the telemetry decoder, checked under SpecD *)

\* a value has just been asked of the decoder
Lookup == tick.op = "getChannelFieldValue"

\* the rows of the table that carry the channel and field
Descriptors(channel, fieldId) ==
    { i \in 1..Len(byteAssignment) :
        /\ byteAssignment[i].ch = channel
        /\ byteAssignment[i].fieldId = fieldId }

\* C16: in the table of the HM 2-channel model no two descriptors share the
\* pair of channel and field, so that a lookup by channel and field finds at
\* most one descriptor, which is the one it resolves to.
C16_DescriptorsUniquePerChannelField ==
    Lookup =>
        /\ Cardinality(Descriptors(tick.channel, tick.fieldId)) <= 1
        /\ \A i \in Descriptors(tick.channel, tick.fieldId) :
               getAssignIdxByChannelField(tick.channel, tick.fieldId) = i - 1

\* the day yield of channel 0 was looked up and resolved to the raw field of
\* the DC input, although the table also has the inverter's total under the
\* same channel and field
C16_Witness ==
    /\ Lookup /\ tick.channel = CH0 /\ tick.fieldId = "FLD_YD"
    /\ decoded.kind = "raw"
    /\ \E i \in Descriptors(CH0, "FLD_YD") : byteAssignment[i].div = CMD_CALC

\* 256^k
RECURSIVE Pow256(_)
Pow256(k) == IF k = 0 THEN 1 ELSE 256 * Pow256(k - 1)

\* the bytes O .. O+L-1 of the buffer weighted by their place, first byte highest
RECURSIVE PlaceValue(_, _, _)
PlaceValue(O, L, k) ==
    IF k = L THEN 0
    ELSE payloadStatistic[O + k] * Pow256(L - 1 - k) + PlaceValue(O, L, k + 1)

\* the integer the decode law gives for a descriptor
LawValue(b) ==
    LET unsigned == PlaceValue(b.start, b.num, 0)
    IN  IF b.isSigned /\ unsigned >= Pow256(b.num) \div 2
        THEN unsigned - Pow256(b.num) ELSE unsigned

\* the descriptor the last lookup resolved to is a raw field that the filled
\* part of the buffer covers
RawCovered ==
    /\ Lookup
    /\ getAssignIdxByChannelField(tick.channel, tick.fieldId) # NoAssignIdx
    /\ LET b == byteAssignment[getAssignIdxByChannelField(tick.channel, tick.fieldId) + 1]
       IN  b.div # CMD_CALC /\ b.start + b.num <= statisticLength

\* C17: the value of a raw descriptor at offset O of length L with divisor D
\* is the big-endian integer of the bytes O .. O+L-1, read as signed when the
\* descriptor says so, divided by D, whenever the filled length covers these
\* bytes; offset 2, length 2, divisor 10, unsigned over the bytes 0x00 0x64
\* gives 100 / 10 = 10.0.
C17_RawDecodeLaw ==
    /\ RawCovered =>
          LET b == byteAssignment[getAssignIdxByChannelField(tick.channel, tick.fieldId) + 1]
          IN  decoded = [kind |-> "raw", num |-> LawValue(b), div |-> b.div]
    /\ ( /\ RawCovered /\ tick.channel = CH0 /\ tick.fieldId = "FLD_UDC"
         /\ payloadStatistic[2] = 0 /\ payloadStatistic[3] = 100 )
          => decoded.num = 100 /\ decoded.div = 10

\* the voltage of DC input 0 was decoded from the bytes 0x00 0x64 at offset 2
C17_Witness ==
    /\ RawCovered /\ tick.channel = CH0 /\ tick.fieldId = "FLD_UDC"
    /\ payloadStatistic[2] = 0 /\ payloadStatistic[3] = 100
    /\ decoded = [kind |-> "raw", num |-> 100, div |-> 10]

\* a negative temperature was decoded: 0xff38 is -200, that is -20.0 degrees
C17_SignedDecoded ==
    /\ RawCovered /\ tick.channel = CH0 /\ tick.fieldId = "FLD_T"
    /\ decoded = [kind |-> "raw", num |-> 0 - 200, div |-> 10]

\* the last call appended a fragment that reaches beyond the buffer
OversizeAppended ==
    /\ tick.op = "appendFragment"
    /\ tick.offset + Len(tick.payload) > STATISTIC_PACKET_SIZE

\* C18: whatever fragments are appended and however often the buffer is
\* cleared, the filled length is at most 112, the buffer has its 112 bytes and
\* no other, and a fragment of any offset and length can be appended.
C18_FilledLengthWithinCapacity ==
    /\ statisticLength \in 0..STATISTIC_PACKET_SIZE
    /\ DOMAIN payloadStatistic = 0..(STATISTIC_PACKET_SIZE - 1)
    /\ \A f \in Fragments : ENABLED (\E clip \in BOOLEAN : appendFragment(f[1], f[2], clip))

\* a fragment of ten bytes at offset 104 was clipped to the last eight bytes
\* of the buffer
C18_Witness ==
    /\ OversizeAppended /\ tick.offset = 104
    /\ statisticLength = STATISTIC_PACKET_SIZE
    /\ payloadStatistic[STATISTIC_PACKET_SIZE - 1] = 8

----------------------------------------------------------------------------
(* Properties of the Victron provider, checked under SpecV *)

\* the pairs of charge limit and charge current that were ever set as one:
\* the pair after construction and the arguments of a setChargeLimit
PairsSet == {<<0, 0>>} \cup ChargePairs

\* loop() has read the charge limit and the charge current
LoopHasPair == threads.loop.pc \in {"line99", "line113"}

\* C19: the list of controllers and the charge-limit values are touched only
\* by a call that holds the mutex, so that loop() never works with a charge
\* limit and a charge current that were not set together, and never walks
\* the list while another call changes it.
C19_SharedStateOnlyUnderMutex ==
    /\ threads.setChargeLimit.pc = "line68" => mutex = "setChargeLimit"
    /\ threads.initController.pc = "line61" => mutex = "initController"
    /\ threads.deinit.pc = "line34" => mutex = "deinit"
    /\ threads.loop.pc \in {"line77", "line82", "line87", "line99", "line113"}
          => mutex = "loop"
    /\ LoopHasPair =>
          <<threads.loop.overallLimit, threads.loop.chargeCurrent>> \in PairsSet
    /\ ~threads.loop.listChanging

\* loop() holds the mutex and has read the limit of one setChargeLimit and the
\* current of the next, which ran to its end in between
C19_Witness ==
    /\ mutex = "loop" /\ LoopHasPair
    /\ threads.setChargeLimit.pc = "idle"
    /\ threads.loop.overallLimit = 10 /\ threads.loop.chargeCurrent = 2

\* loop() walked the list of controllers while initController appended to it
C19_ListWalkedWhileAppended ==
    /\ mutex = "loop" /\ threads.loop.listChanging
    /\ threads.deinit.pc = "idle"

----------------------------------------------------------------------------
(* The limiter and the regulator together, checked under Spec *)

\* the step is a regular limit update of PowerLimiterClass::loop
LimitTick == tick'.op = "loop" /\ tick'.branch = "limit"

\* the telemetry a call of calculateSurplusPower may find
RegulatorEnvs == UNION { EnvsFor(mode) : mode \in Modes }

\* C20: the limit that a regular limit update sends is what
\* calculateSurplusPower returns for the limiter's candidate: the regulator is
\* called with the candidate, which leaves it in the state after that call,
\* and its result is the value of the command.
C20_LimitTickPassesThroughRegulator ==
    [][ LimitTick =>
          \E env \in RegulatorEnvs :
             LET r == CalculateSurplusPower(sp, NewPowerLimit, env) IN
             /\ sent' = <<LimitCmd(r.ret)>>
             /\ sp' = r.s ]_vars

\* a limit was sent later than one calculation period after the start, and
\* the regulator has never calculated
C20_Witness ==
    /\ tick.op = "loop" /\ tick.branch = "limit"
    /\ now >= CalcPeriod /\ lastCommandSent = now
    /\ sent = <<LimitCmd(lastRequestedPowerLimit)>>
    /\ sp.lastCalcMillis = 0

====
